---------------------------- MODULE Spec2Model ----------------------------
(***************************************************************************)
(* Model of the backup server (src/unnamed/part_000, src/src/utils.ts).    *)
(*                                                                         *)
(* The state is the file system (original tree, main store, emergency      *)
(* store), the wall clock, the `operations` map and the tool calls in      *)
(* flight.  A tool call is an async handler: every action below is the     *)
(* completion of one awaited file-system request followed by the           *)
(* synchronous code that runs up to the next await.  Handlers of different *)
(* calls interleave at the awaits only.                                    *)
(***************************************************************************)
EXTENDS Integers, Sequences, FiniteSets, TLC

VARIABLES fs, now, operations, calls

vars == <<fs, now, operations, calls>>

(***************************************************************************)
(* Bounds of the model.                                                    *)
(***************************************************************************)
MaxTime == 2        \* clock readings 1..MaxTime (milliseconds)
MaxOps == 3         \* tool calls dispatched in one behaviour
MaxInFlight == 2    \* tool calls in progress at the same time
RetentionTime == 3  \* clock readings of SpecRetention
RetentionOps == 3   \* tool calls of SpecRetention
FolderInFlight == 1 \* tool calls in progress at the same time in SpecFolder
TrackerOps == 2     \* tool calls of SpecTracker
ListingOps == 4     \* tool calls of SpecListing
FilterOps == 2      \* tool calls of SpecFilter
EmergencyOps == 2   \* tool calls of SpecEmergency
CaseOps == 2        \* tool calls of SpecCase
OrderOps == 3       \* tool calls of SpecOrder
IdemOps == 3        \* tool calls of SpecIdem
StampOps == 2       \* readings of the clock in SpecStamp
CancelOps == 4      \* tool calls of SpecCancelAll
TolerantOps == 3    \* tool calls of SpecTolerant
InvalidOps == 3     \* tool calls of SpecInvalid
MapperOps == 2      \* paths mapped in SpecMapper
RestoreOps == 3     \* tool calls of SpecCancelRestore
LateOps == 3        \* tool calls of SpecLateCancel
LookupOps == 3      \* tool calls of SpecLookup
PruneOps == 4       \* tool calls of SpecPrune
PruneInFlight == 1  \* tool calls in progress at the same time in SpecPrune

(***************************************************************************)
(* Configuration (environment variables of the server).                    *)
(***************************************************************************)
MAX_VERSIONS == 2

NULL == "null"

(***************************************************************************)
(* File names.  A name is a record: `base` is the original base name,      *)
(* `cls` tells which suffix the server appended and `ts` is the timestamp  *)
(* in that suffix.  While the local UTC offset does not change, timestamps *)
(* are fixed-width strings whose order is the order of the instants; the   *)
(* stores are modelled over such a period, a timestamp being its instant.  *)
(* generateTimestamp itself is modelled with SpecStamp below.              *)
(*    plain   base                                                         *)
(*    bak     base.<ts>                                                    *)
(*    meta    base.<ts>.meta.json                                          *)
(*    ebak    base.emergency.<ts>                                          *)
(*    emeta   base.emergency.<ts>.meta.json                                *)
(***************************************************************************)
Nm(b) == [base |-> b, cls |-> "plain", ts |-> 0]
Sfx(b, c, t) == [base |-> b, cls |-> c, ts |-> t]

\* path.parse(p).name : the base name without its extension
StemOf(b) == IF b = "f.txt" THEN "f" ELSE IF b = "g.txt" THEN "g" ELSE b

\* rank of the base names under strcmp
BaseRank(b) ==
    CASE b = "D" -> 0 [] b = "bk" -> 1 [] b = "d" -> 2 [] b = "em" -> 3 [] b = "f" -> 4
      [] b = "f.txt" -> 5 [] b = "g" -> 6 [] b = "g.txt" -> 7 [] b = "s" -> 8
      [] OTHER -> 9

ClsRank(c) ==
    CASE c = "plain" -> 0 [] c = "bak" -> 1 [] c = "meta" -> 1
      [] c = "ebak" -> 2 [] c = "emeta" -> 2 [] OTHER -> 3

SubRank(c) == IF c \in {"meta", "emeta"} THEN 1 ELSE 0

\* strcmp order of two names of one directory (readdir returns names sorted)
NameLess(a, b) ==
    LET ka == <<BaseRank(a.base), ClsRank(a.cls), a.ts, SubRank(a.cls)>>
        kb == <<BaseRank(b.base), ClsRank(b.cls), b.ts, SubRank(b.cls)>>
    IN  \E i \in 1..4 : /\ ka[i] < kb[i]
                        /\ \A j \in 1..(i-1) : ka[j] = kb[j]

(***************************************************************************)
(* Paths are sequences of names; <<>> is the root directory.               *)
(***************************************************************************)
Dirname(p) == SubSeq(p, 1, Len(p) - 1)
Basename(p) == p[Len(p)]
Join(d, n) == Append(d, n)
IsPrefix(a, b) == Len(a) <= Len(b) /\ SubSeq(b, 1, Len(a)) = a

BACKUP_DIR_NORMALIZED == <<Nm("bk")>>
EMERGENCY_BACKUP_DIR_NORMALIZED == <<Nm("em")>>

(***************************************************************************)
(* The file system: a function from the paths that exist to their nodes.   *)
(* A descriptor file carries its parsed JSON in `meta`; every other file   *)
(* carries NoMeta there (JSON.parse of it fails).                          *)
(***************************************************************************)
NoMeta == [original_path |-> <<>>, original_filename |-> "", timestamp |-> 0,
           backup_path |-> <<>>,
           agent_context |-> ""]
DirNode == [kind |-> "dir", data |-> "", meta |-> NoMeta]
FileNode(c) == [kind |-> "file", data |-> c, meta |-> NoMeta]
MetaNode(m) == [kind |-> "file", data |-> "json", meta |-> m]

Exists(f, p) == p \in DOMAIN f
IsDir(f, p) == p \in DOMAIN f /\ f[p].kind = "dir"
IsFile(f, p) == p \in DOMAIN f /\ f[p].kind = "file"

Prefixes(p) == {SubSeq(p, 1, i) : i \in 0..Len(p)}

\* mkdir(p, {recursive: true}) succeeds unless a file is in the way
MkdirOk(f, p) == \A q \in Prefixes(p) : ~IsFile(f, q)
MkdirP(f, p) ==
    [q \in DOMAIN f \cup Prefixes(p) |-> IF q \in DOMAIN f THEN f[q] ELSE DirNode]

\* copyFile(src, dst): src must be a file, the parent of dst a directory
CopyFileOk(f, src, dst) == IsFile(f, src) /\ IsDir(f, Dirname(dst)) /\ ~IsDir(f, dst)
WriteNode(f, p, n) == [q \in DOMAIN f \cup {p} |-> IF q = p THEN n ELSE f[q]]
CopyFile(f, src, dst) == WriteNode(f, dst, f[src])

\* writeFile / writeFileSync
WriteFileOk(f, p) == IsDir(f, Dirname(p)) /\ ~IsDir(f, p)

\* unlinkSync(p)
Unlink(f, p) == [q \in DOMAIN f \ {p} |-> f[q]]

\* rmdirSync(p, {recursive: true})
RmRecursive(f, p) == [q \in {x \in DOMAIN f : ~IsPrefix(p, x)} |-> f[q]]

\* readdirSync(d): the names in d, sorted
Children(f, d) == {p \in DOMAIN f : Len(p) = Len(d) + 1 /\ Dirname(p) = d}

RECURSIVE SortNames(_)
SortNames(S) ==
    IF S = {} THEN <<>>
    ELSE LET m == CHOOSE x \in S : \A y \in S \ {x} : NameLess(x, y)
         IN  <<m>> \o SortNames(S \ {m})

Readdir(f, d) == SortNames({Basename(p) : p \in Children(f, d)})

(***************************************************************************)
(* Inputs.                                                                 *)
(***************************************************************************)
Contents == {"", "a"}
FileF == <<Nm("d"), Nm("f.txt")>>
FolderD == <<Nm("d")>>
FolderS == <<Nm("d"), Nm("s")>>
FileG == <<Nm("d"), Nm("s"), Nm("g.txt")>>
FolderUpper == <<Nm("D")>>


(***************************************************************************)
(* Path mapper.  Original paths are absolute and normalized, so the        *)
(* directory part with its root stripped is the sequence of the parent's   *)
(* names.                                                                  *)
(***************************************************************************)
getBackupDir(filePath) == BACKUP_DIR_NORMALIZED \o Dirname(filePath)
getBackupFilename(filePath, timestamp) == Sfx(Basename(filePath).base, "bak", timestamp)
getBackupFolderName(folderPath, timestamp) == Sfx(Basename(folderPath).base, "bak", timestamp)

\* `${path}.meta.json`
AddMetaSuffix(n) ==
    Sfx(n.base, IF n.cls = "bak" THEN "meta" ELSE IF n.cls = "ebak" THEN "emeta" ELSE "other", n.ts)
getBackupMetadataFilename(backupFilePath) ==
    Join(Dirname(backupFilePath), AddMetaSuffix(Basename(backupFilePath)))

EndsWithMetaJson(n) == n.cls \in {"meta", "emeta", "other"}

createBackupMetadata(filePath, timestamp, backupPath, agentContext) ==
    [original_path |-> filePath, original_filename |-> Basename(filePath).base,
     timestamp |-> timestamp,
     backup_path |-> backupPath, agent_context |-> agentContext]

saveBackupMetadata(f, metadataPath, metadata) == WriteNode(f, metadataPath, MetaNode(metadata))

\* null (NoMeta) for a missing or malformed descriptor
readBackupMetadata(f, metadataPath) ==
    IF IsFile(f, metadataPath) THEN f[metadataPath].meta ELSE NoMeta

isFolderMetadata(f, metadata) ==
    /\ metadata # NoMeta
    /\ metadata.original_path # <<>>
    /\ metadata.backup_path # <<>>
    /\ ~EndsWithMetaJson(Basename(metadata.backup_path))
    /\ IsDir(f, metadata.backup_path)

(***************************************************************************)
(* Array.prototype.sort with a comparator: a stable sort in which a NaN    *)
(* result counts as 0.  Before(a, b) is "comparator(a, b) < 0".            *)
(***************************************************************************)
StableSort(s, Before(_, _)) ==
    LET rank(i) == Cardinality({j \in 1..Len(s) : Before(s[j], s[i])})
                   + Cardinality({j \in 1..(i-1) : ~Before(s[j], s[i]) /\ ~Before(s[i], s[j])})
                   + 1
    IN  [k \in 1..Len(s) |-> s[CHOOSE i \in 1..Len(s) : rank(i) = k]]

\* new Date("YYYYMMDD-HHMMSS-mmm").getTime(): the string is no date, so NaN
DateGetTime(timestamp) == "NaN"
\* a - b for two getTime() results
DateDiffNegative(a, b) == IF a = "NaN" \/ b = "NaN" THEN FALSE ELSE a < b

\* findAllBackupMetadataFiles: depth-first walk in readdir order
RECURSIVE findAllBackupMetadataFiles(_, _), WalkItems(_, _, _)
WalkItems(f, directory, items) ==
    IF items = <<>> THEN <<>>
    ELSE LET itemPath == Join(directory, Head(items))
             here == IF IsDir(f, itemPath) THEN findAllBackupMetadataFiles(f, itemPath)
                     ELSE IF EndsWithMetaJson(Head(items)) THEN <<itemPath>>
                     ELSE <<>>
         IN  here \o WalkItems(f, directory, Tail(items))
findAllBackupMetadataFiles(f, directory) ==
    IF ~Exists(f, directory) THEN <<>>
    ELSE WalkItems(f, directory, Readdir(f, directory))

\* a test that takes the descriptor of any file for a backup of filePath
isBackupOfAnyFile(f, metadata, filePath) ==
    metadata # NoMeta /\ ~isFolderMetadata(f, metadata)

\* metadata && metadata.original_path === filePath && !isFolderMetadata(metadata)
isBackupOf(f, metadata, filePath) ==
    metadata # NoMeta /\ metadata.original_path = filePath /\ ~isFolderMetadata(f, metadata)

SelectSeqMeta(f, paths, Keep(_)) ==
    LET all == [i \in 1..Len(paths) |-> readBackupMetadata(f, paths[i])]
    IN  SelectSeq(all, Keep)

\* findBackupsByFilePath walking the emergency store as well
findBackupsByFilePathAnywhere(f, filePath) ==
    LET metadataFiles == findAllBackupMetadataFiles(f, BACKUP_DIR_NORMALIZED)
                            \o findAllBackupMetadataFiles(f, EMERGENCY_BACKUP_DIR_NORMALIZED)
        Keep(m) == isBackupOf(f, m, filePath)
        NewestFirst(a, b) == DateDiffNegative(DateGetTime(b.timestamp), DateGetTime(a.timestamp))
    IN  StableSort(SelectSeqMeta(f, metadataFiles, Keep), NewestFirst)

findBackupsByFilePath(f, filePath) ==
    LET metadataFiles == findAllBackupMetadataFiles(f, BACKUP_DIR_NORMALIZED)
        Keep(m) == isBackupOf(f, m, filePath)
        NewestFirst(a, b) == DateDiffNegative(DateGetTime(b.timestamp), DateGetTime(a.timestamp))
    IN  StableSort(SelectSeqMeta(f, metadataFiles, Keep), NewestFirst)

findBackupByTimestamp(f, filePath, timestamp) ==
    LET backupPath == Join(getBackupDir(filePath), getBackupFilename(filePath, timestamp))
        metadataPath == getBackupMetadataFilename(backupPath)
        metadata == readBackupMetadata(f, metadataPath)
    IN  IF Exists(f, metadataPath) /\ metadata # NoMeta /\ ~isFolderMetadata(f, metadata)
        THEN metadata ELSE NoMeta

(***************************************************************************)
(* Retention.                                                              *)
(***************************************************************************)
RECURSIVE UnlinkAll(_, _)
UnlinkAll(f, backupsToRemove) ==
    IF backupsToRemove = <<>> THEN f
    ELSE LET p == Head(backupsToRemove).backup_path
         IN  UnlinkAll(IF IsFile(f, p) THEN Unlink(f, p) ELSE f, Tail(backupsToRemove))

\* backupsToRemove as a pass that takes the list for newest-first and drops its tail
backupsToRemoveTail(backups) ==
    SubSeq(backups, MAX_VERSIONS + 1, Len(backups))

\* the backups a pass removes: the first (length - MAX_VERSIONS) after the sort
backupsToRemove(backups) ==
    LET OldestFirst(a, b) == DateDiffNegative(DateGetTime(a.timestamp), DateGetTime(b.timestamp))
    IN  SubSeq(StableSort(backups, OldestFirst), 1, Len(backups) - MAX_VERSIONS)

\* cleanupOldBackups that returns the number of entries found, uncapped
cleanupOldBackupsUncapped(f, filePath) ==
    LET backups == findBackupsByFilePath(f, filePath)
    IN  IF Len(backups) > MAX_VERSIONS
        THEN [fs |-> UnlinkAll(f, backupsToRemove(backups)), kept |-> Len(backups)]
        ELSE [fs |-> f, kept |-> Len(backups)]

cleanupOldBackups(f, filePath) ==
    LET backups == findBackupsByFilePath(f, filePath)
    IN  IF Len(backups) > MAX_VERSIONS
        THEN [fs |-> UnlinkAll(f, backupsToRemove(backups)), kept |-> MAX_VERSIONS]
        ELSE [fs |-> f, kept |-> Len(backups)]

(***************************************************************************)
(* Operation tracker.                                                      *)
(***************************************************************************)
\* the module-level variable of line 70; the handler assigns only its own
\* local of the same name, so this one keeps its initial value
currentOperationId == NULL

updateOperationProgress(ops, operationId, progress) ==
    IF operationId \in DOMAIN ops
    THEN [ops EXCEPT ![operationId].progress = progress]
    ELSE ops

\* logProgress as if the handler assigned the module-level currentOperationId
\* (no `let` on line 187): it names the operation allocated last
logProgressAssigned(ops, progress) ==
    updateOperationProgress(ops, Cardinality(DOMAIN ops), progress)

logProgress(ops, progress) ==
    IF currentOperationId # NULL
    THEN updateOperationProgress(ops, currentOperationId, progress)
    ELSE ops

\* an operation record that starts with the flag set
createOperationCancelled(type) ==
    [type |-> type, progress |-> 0, cancelled |-> TRUE, status |-> "running"]

createOperation(type) == [type |-> type, progress |-> 0, cancelled |-> FALSE, status |-> "running"]

\* cancelOperation that flags every operation of the map
cancelOperationAll(ops, operationId) ==
    IF operationId \in DOMAIN ops
    THEN [ops |-> [i \in DOMAIN ops |-> [ops[i] EXCEPT !.cancelled = TRUE]], found |-> TRUE]
    ELSE [ops |-> ops, found |-> FALSE]

cancelOperation(ops, operationId) ==
    IF operationId \in DOMAIN ops
    THEN [ops |-> [ops EXCEPT ![operationId].cancelled = TRUE], found |-> TRUE]
    ELSE [ops |-> ops, found |-> FALSE]

\* checkOperationCancelled: is the flag of this call's operation set
checkOperationCancelled(ops, operationId) ==
    operationId \in DOMAIN ops /\ ops[operationId].cancelled

(***************************************************************************)
(* Tool calls.  calls[id] is the handler's frame of the call whose         *)
(* operation is `id`: its arguments, its locals, where it is suspended     *)
(* (pc) and, once it has returned, its result.  `prior`, `copied`,         *)
(* `emMade` and `pre` only record what happened (they steer nothing);       *)
(* `listed` and `listedEm` are the entries a list call returns;            *)
(* `discarded` counts the entries a list-all had gathered when it threw.   *)
(* `before` is what was at the original path when a restore was called.   *)
(* `operationId` is the handler's local currentOperationId (line 194) and  *)
(* `errorId` the operationId of the error result, 0 when there is none.    *)
(***************************************************************************)
Ids == DOMAIN calls
InFlight == {i \in Ids : calls[i].pc # "done"}
Done == {i \in Ids : calls[i].pc = "done"}
NextId == Cardinality(Ids) + 1

\* an absent glob argument
NoGlob == ""
NewCall(verb, path, ts, em, target, pc) ==
    [verb |-> verb, path |-> path, ts |-> ts, em |-> em, target |-> target,
     operationId |-> NextId, errorId |-> 0,
     pc |-> pc, result |-> "none", backup |-> NoMeta, ets |-> 0, stage |-> 0,
     kept |-> -1, status |-> "",
     listed |-> <<>>, listedEm |-> <<>>,
     include_pattern |-> NoGlob, exclude_pattern |-> NoGlob,
     emFailed |-> FALSE, discarded |-> 0, before |-> <<>>, plain |-> [result |-> "none", content |-> <<>>],
     prior |-> Done, copied |-> NULL, emMade |-> {}, pre |-> NULL]

\* the frame of a call that has returned: its locals are gone
Return(c, result) ==
    [c EXCEPT !.pc = "done", !.result = result, !.backup = NoMeta, !.ets = 0, !.stage = 0]
\* return formatJsonResponse(...)
Success(c) == Return(c, "success")
\* an error result without the operation id: formatErrorResponse(error)
FailureAnonymous(c) == Return(c, "error")

\* the catch of the handler: return formatErrorResponse(error, currentOperationId)
Failure(c) == [Return(c, "error") EXCEPT !.errorId = c.operationId]
\* return cancelCheck.response
Cancelled(c) == Return(c, "cancelled")

\* room for one more call within the bounds
Room(maxOps, maxInFlight) == NextId <= maxOps /\ Cardinality(InFlight) < maxInFlight

\* lines 186-196: every call allocates an operation before its case runs
Allocate(verb, frame) ==
    /\ operations' = (NextId :> createOperation(verb)) @@ operations
    /\ calls' = (NextId :> frame) @@ calls

InitialFs(c) ==
    (<<>> :> DirNode) @@ (FolderD :> DirNode) @@ (FileF :> FileNode(c))
    @@ (FolderS :> DirNode) @@ (FileG :> FileNode("a"))

Init ==
    /\ fs \in {InitialFs(c) : c \in Contents}
    /\ now = 1
    /\ operations = <<>>
    /\ calls = <<>>

(***************************************************************************)
(* The environment: the user edits or deletes the original file.  The      *)
(* clock is read by generateTimestamp only: `now` is its last reading and  *)
(* a reading t is any instant from `now` on.                               *)
(***************************************************************************)
EditFile(p, c) ==
    /\ IsDir(fs, Dirname(p))
    /\ ~IsDir(fs, p)
    /\ ~(IsFile(fs, p) /\ fs[p].data = c)
    /\ fs' = WriteNode(fs, p, FileNode(c))
    /\ UNCHANGED <<now, operations, calls>>

\* the user makes a directory
MakeFolder(p) ==
    /\ ~Exists(fs, p) /\ IsDir(fs, Dirname(p))
    /\ fs' = MkdirP(fs, p)
    /\ UNCHANGED <<now, operations, calls>>

DeleteFile(p) ==
    /\ IsFile(fs, p)
    /\ fs' = Unlink(fs, p)
    /\ UNCHANGED <<now, operations, calls>>

\* the verbs whose handler begins with validateRequiredParams
VerbsWithRequired ==
    {"backup_create", "backup_list", "backup_restore", "backup_folder_create",
     "backup_folder_list", "backup_folder_restore", "mcp_cancel"}

\* a call that lacks a required argument: the operation is allocated,
\* validateRequiredParams throws, the catch of line 744 returns the error
DispatchInvalid(verb) ==
    /\ verb \in VerbsWithRequired
    /\ Allocate(verb, Failure(NewCall(verb, <<>>, 0, "absent", 0, "done")))
    /\ UNCHANGED <<fs, now>>

\* the descriptor files of both stores that parse as JSON
ReadableDescriptors(f) ==
    {d \in DOMAIN f : /\ IsPrefix(BACKUP_DIR_NORMALIZED, d)
                         \/ IsPrefix(EMERGENCY_BACKUP_DIR_NORMALIZED, d)
                      /\ IsFile(f, d) /\ f[d].meta # NoMeta}

\* a descriptor is left truncated: what it holds is no JSON
CorruptDescriptor(d) ==
    /\ d \in ReadableDescriptors(fs)
    /\ fs' = WriteNode(fs, d, FileNode(""))
    /\ UNCHANGED <<now, operations, calls>>

\* a descriptor is deleted
DeleteDescriptor(d) ==
    /\ d \in ReadableDescriptors(fs)
    /\ fs' = Unlink(fs, d)
    /\ UNCHANGED <<now, operations, calls>>

(***************************************************************************)
(* backup_create (lines 197-269).                                          *)
(***************************************************************************)
\* up to `await validateFileExists(filePath)`
DispatchCreate(p) ==
    /\ Allocate("backup_create", NewCall("backup_create", p, 0, "absent", 0, "c_stat"))
    /\ UNCHANGED <<fs, now>>

\* validateFileExists returns; up to `await ensureBackupDirectoryExists(backupDir)`
CreateStat(id, t) ==
    /\ id \in Ids /\ calls[id].pc = "c_stat"
    /\ t >= now
    /\ IF IsFile(fs, calls[id].path)
       THEN /\ calls' = [calls EXCEPT ![id] = [@ EXCEPT !.pc = "c_mkdir", !.ts = t]]
            /\ now' = t                                  \* generateTimestamp()
       ELSE /\ t = now
            /\ calls' = [calls EXCEPT ![id] = Failure(@)]
            /\ UNCHANGED now
    /\ UNCHANGED <<fs, operations>>

\* the mkdir is done; progress 10, first checkpoint, up to `await copyFile`
CreateMkdir(id) ==
    /\ id \in Ids /\ calls[id].pc = "c_mkdir"
    /\ LET c == calls[id]
           backupDir == getBackupDir(c.path)
       IN  IF ~MkdirOk(fs, backupDir)
           THEN /\ calls' = [calls EXCEPT ![id] = Failure(c)]
                /\ UNCHANGED <<fs, operations>>
           ELSE /\ fs' = MkdirP(fs, backupDir)
                /\ operations' = logProgress(operations, 10)
                /\ calls' = [calls EXCEPT ![id] =
                               IF checkOperationCancelled(operations, id)
                               THEN Cancelled(c)
                               ELSE [c EXCEPT !.pc = "c_copy"]]
    /\ UNCHANGED now

\* the copy is done; progress 70, second checkpoint (its cleanup unlinks the
\* copy), descriptor, progress 90, retention, progress 100, result
CreateCopy(id) ==
    /\ id \in Ids /\ calls[id].pc = "c_copy"
    /\ LET c == calls[id]
           backupPath == Join(getBackupDir(c.path), getBackupFilename(c.path, c.ts))
           metadataPath == getBackupMetadataFilename(backupPath)
           fs1 == CopyFile(fs, c.path, backupPath)
           metadata == createBackupMetadata(c.path, c.ts, backupPath, "ctx")
           fs2 == saveBackupMetadata(fs1, metadataPath, metadata)
           pass == cleanupOldBackups(fs2, c.path)
       IN  IF ~CopyFileOk(fs, c.path, backupPath)
           THEN /\ calls' = [calls EXCEPT ![id] = Failure(c)]
                /\ UNCHANGED <<fs, operations>>
           ELSE IF checkOperationCancelled(operations, id)
           THEN /\ fs' = IF Exists(fs1, backupPath) THEN Unlink(fs1, backupPath) ELSE fs1
                /\ operations' = logProgress(operations, 70)
                /\ calls' = [calls EXCEPT ![id] =
                               Cancelled([c EXCEPT !.copied = fs[c.path].data])]
           ELSE /\ fs' = pass.fs
                /\ operations' =
                     logProgress(logProgress(logProgress(operations, 70), 90), 100)
                /\ calls' = [calls EXCEPT ![id] =
                               Success([c EXCEPT !.copied = fs[c.path].data,
                                                 !.kept = pass.kept])]
    /\ UNCHANGED now

(***************************************************************************)
(* backup_restore (lines 305-367), restoreBackup (lines 1168-1198) and     *)
(* createEmergencyBackup (lines 1047-1090).  The handler takes its         *)
(* emergency copy (stage 1) and then calls restoreBackup, which takes one  *)
(* again (stage 2) when it is passed the flag.                             *)
(***************************************************************************)
\* params.create_emergency_backup as the handler reads it: the request's
\* arguments are cast, never parsed, so the schema's default is not applied
FlagOfRestore(em) == em = "true"

\* restoreBackup from "Get backup path" to `await copyFile(backupPath, filePath)`
RestoreChecks(c, f) ==
    IF c.backup.backup_path = <<>> \/ ~Exists(f, c.backup.backup_path) THEN Failure(c)
    ELSE IF ~Exists(f, c.path) THEN Failure(c)
    ELSE [c EXCEPT !.pc = "r_copy"]

\* createEmergencyBackup up to `await ensureEmergencyBackupDir()`; a missing
\* original makes it return null at once
EmergencyEntry2(c, f) ==
    IF ~Exists(f, c.path) THEN RestoreChecks(c, f)
    ELSE [c EXCEPT !.pc = "e_dir", !.stage = 2]

\* restoreBackup from its start
RestoreBackupEntry(c, f) ==
    LET backups == findBackupsByFilePath(f, c.path)
        hits == SelectSeq(backups, LAMBDA b : b.timestamp = c.ts)
    IN  IF hits = <<>> THEN Failure(c)
        ELSE IF FlagOfRestore(c.em) THEN EmergencyEntry2([c EXCEPT !.backup = Head(hits)], f)
        ELSE RestoreChecks([c EXCEPT !.backup = Head(hits)], f)

EmergencyEntry1(c, f) ==
    IF ~Exists(f, c.path) THEN RestoreBackupEntry(c, f)
    ELSE [c EXCEPT !.pc = "e_dir", !.stage = 1]

\* createEmergencyBackup with a catch that throws the error again
AfterEmergencyRethrow(c, f) ==
    IF c.emFailed THEN Failure(c)
    ELSE IF c.stage = 1 THEN RestoreBackupEntry(c, f) ELSE RestoreChecks(c, f)

\* what follows the return of createEmergencyBackup
AfterEmergency(c, f) == IF c.stage = 1 THEN RestoreBackupEntry(c, f) ELSE RestoreChecks(c, f)

emergencyBackupDir(p) == EMERGENCY_BACKUP_DIR_NORMALIZED \o Dirname(p)
emergencyBackupPath(p, timestamp) ==
    Join(emergencyBackupDir(p), Sfx(Basename(p).base, "ebak", timestamp))
\* path.join(EMERGENCY_BACKUP_DIR_NORMALIZED, `${parsedPath.name}.emergency.${timestamp}.meta.json`)
emergencyMetadataPath(p, timestamp) ==
    Join(EMERGENCY_BACKUP_DIR_NORMALIZED, Sfx(StemOf(Basename(p).base), "emeta", timestamp))

\* what is at and below `p`
ContentAt(f, p) == [q \in {q \in DOMAIN f : IsPrefix(p, q)} |-> f[q]]

\* the result of backup_restore(p, timestamp, create_emergency_backup = false)
\* run alone from `f`, and what it leaves at `p`
PlainRestore(f, p, timestamp) ==
    LET c0 == [NewCall("backup_restore", p, timestamp, "false", 0, "r_find")
                 EXCEPT !.backup = findBackupByTimestamp(f, p, timestamp)]
        f1 == MkdirP(f, Dirname(p))
        c1 == RestoreBackupEntry(c0, f1)
    IN  IF c0.backup = NoMeta \/ ~MkdirOk(f, Dirname(p))
        THEN [result |-> "error", content |-> ContentAt(f, p)]
        ELSE IF c1.pc = "done" \/ ~CopyFileOk(f1, c1.backup.backup_path, p)
        THEN [result |-> "error", content |-> ContentAt(f1, p)]
        ELSE [result |-> "success",
              content |-> ContentAt(CopyFile(f1, c1.backup.backup_path, p), p)]

\* findBackupByTimestamp runs at once; the call is suspended on its await
DispatchRestore(p, timestamp, em) ==
    /\ Allocate("backup_restore",
                [NewCall("backup_restore", p, timestamp, em, 0, "r_find")
                   EXCEPT !.backup = findBackupByTimestamp(fs, p, timestamp)])
    /\ UNCHANGED <<fs, now>>

\* the same, recording in the frame what the call would do without the
\* emergency copy
DispatchRestoreTraced(p, timestamp, em) ==
    /\ Allocate("backup_restore",
                [NewCall("backup_restore", p, timestamp, em, 0, "r_find")
                   EXCEPT !.backup = findBackupByTimestamp(fs, p, timestamp),
                          !.before = ContentAt(fs, p),
                          !.plain = PlainRestore(fs, p, timestamp)])
    /\ UNCHANGED <<fs, now>>

\* not found, or progress 20, first checkpoint, up to `await mkdir(targetDir)`
RestoreFound(id) ==
    /\ id \in Ids /\ calls[id].pc = "r_find"
    /\ LET c == calls[id]
       IN  IF c.backup = NoMeta
           THEN /\ calls' = [calls EXCEPT ![id] = Failure(c)]
                /\ UNCHANGED operations
           ELSE /\ operations' = logProgress(operations, 20)
                /\ calls' = [calls EXCEPT ![id] =
                               IF checkOperationCancelled(operations, id)
                               THEN Cancelled(c)
                               ELSE [c EXCEPT !.pc = "r_mkdir"]]
    /\ UNCHANGED <<fs, now>>

\* the same step with the second checkpoint placed after the copy
RestoreMkdirCopyFirst(id) ==
    /\ id \in Ids /\ calls[id].pc = "r_mkdir"
    /\ LET c == calls[id]
           targetDir == Dirname(c.path)
           fs1 == MkdirP(fs, targetDir)
           fs2 == IF CopyFileOk(fs1, c.backup.backup_path, c.path)
                  THEN CopyFile(fs1, c.backup.backup_path, c.path) ELSE fs1
       IN  IF ~MkdirOk(fs, targetDir)
           THEN /\ calls' = [calls EXCEPT ![id] = Failure(c)]
                /\ UNCHANGED <<fs, operations>>
           ELSE /\ fs' = IF checkOperationCancelled(operations, id) THEN fs2 ELSE fs1
                /\ operations' = logProgress(operations, 50)
                /\ calls' = [calls EXCEPT ![id] =
                               IF checkOperationCancelled(operations, id) THEN Cancelled(c)
                               ELSE IF FlagOfRestore(c.em) THEN EmergencyEntry1(c, fs1)
                               ELSE RestoreBackupEntry(c, fs1)]
    /\ UNCHANGED now

\* the mkdir is done; progress 50, second checkpoint, the emergency copy of
\* the handler or, without the flag, restoreBackup
RestoreMkdir(id) ==
    /\ id \in Ids /\ calls[id].pc = "r_mkdir"
    /\ LET c == calls[id]
           targetDir == Dirname(c.path)
           fs1 == MkdirP(fs, targetDir)
       IN  IF ~MkdirOk(fs, targetDir)
           THEN /\ calls' = [calls EXCEPT ![id] = Failure(c)]
                /\ UNCHANGED <<fs, operations>>
           ELSE /\ fs' = fs1
                /\ operations' = logProgress(operations, 50)
                /\ calls' = [calls EXCEPT ![id] =
                               IF checkOperationCancelled(operations, id) THEN Cancelled(c)
                               ELSE IF FlagOfRestore(c.em) THEN EmergencyEntry1(c, fs1)
                               ELSE RestoreBackupEntry(c, fs1)]
    /\ UNCHANGED now

\* ensureEmergencyBackupDir is done; generateTimestamp, up to `await mkdir(emergencyBackupDir)`
EmergencyDir(id, t) ==
    /\ id \in Ids /\ calls[id].pc = "e_dir"
    /\ t >= now
    /\ fs' = MkdirP(fs, EMERGENCY_BACKUP_DIR_NORMALIZED)
    /\ calls' = [calls EXCEPT ![id] = [@ EXCEPT !.pc = "e_mkdir", !.ets = t]]
    /\ now' = t
    /\ UNCHANGED operations

\* the mirrored directory is made; up to `await copyFile(filePath, backupPath)`
EmergencyMkdir(id) ==
    /\ id \in Ids /\ calls[id].pc = "e_mkdir"
    /\ fs' = MkdirP(fs, emergencyBackupDir(calls[id].path))
    /\ calls' = [calls EXCEPT ![id] = [@ EXCEPT !.pc = "e_copy"]]
    /\ UNCHANGED <<now, operations>>

\* the copy is done, up to `await writeFile(metadataPath, ...)`; a failed copy
\* is caught and createEmergencyBackup returns null
EmergencyCopy(id) ==
    /\ id \in Ids /\ calls[id].pc = "e_copy"
    /\ LET c == calls[id]
           backupPath == emergencyBackupPath(c.path, c.ets)
       IN  IF ~CopyFileOk(fs, c.path, backupPath)
           THEN /\ calls' = [calls EXCEPT ![id] =
                               AfterEmergency([c EXCEPT !.emFailed = TRUE], fs)]
                /\ UNCHANGED fs
           ELSE /\ fs' = CopyFile(fs, c.path, backupPath)
                /\ calls' = [calls EXCEPT ![id] =
                               [c EXCEPT !.pc = "e_meta", !.emMade = @ \cup {backupPath}]]
    /\ UNCHANGED <<now, operations>>

\* the descriptor is written; createEmergencyBackup returns its backupPath
EmergencyMeta(id) ==
    /\ id \in Ids /\ calls[id].pc = "e_meta"
    /\ LET c == calls[id]
           backupPath == emergencyBackupPath(c.path, c.ets)
           metadata == createBackupMetadata(c.path, c.ets, backupPath, "emergency")
           fs1 == WriteNode(fs, emergencyMetadataPath(c.path, c.ets), MetaNode(metadata))
       IN  /\ fs' = fs1
           /\ calls' = [calls EXCEPT ![id] = AfterEmergency(c, fs1)]
    /\ UNCHANGED <<now, operations>>

\* an awaited request of createEmergencyBackup (mkdir, copyFile, writeFile)
\* rejects with an I/O error: the catch of lines 1086-1089 returns null
EmergencyFails(id) ==
    /\ id \in Ids /\ calls[id].pc \in {"e_dir", "e_mkdir", "e_copy", "e_meta"}
    /\ calls' = [calls EXCEPT ![id] = AfterEmergency([@ EXCEPT !.emFailed = TRUE], fs)]
    /\ UNCHANGED <<fs, now, operations>>

\* the copy over the original is done; progress 100, result
\* the copy of restoreBackup preceded by one more checkpoint
RestoreCopyChecked(id) ==
    /\ id \in Ids /\ calls[id].pc = "r_copy"
    /\ LET c == calls[id]
           backupPath == c.backup.backup_path
       IN  IF checkOperationCancelled(operations, id)
           THEN /\ calls' = [calls EXCEPT ![id] = Cancelled(c)]
                /\ UNCHANGED <<fs, operations>>
           ELSE IF ~CopyFileOk(fs, backupPath, c.path)
           THEN /\ calls' = [calls EXCEPT ![id] = Failure(c)]
                /\ UNCHANGED <<fs, operations>>
           ELSE /\ fs' = CopyFile(fs, backupPath, c.path)
                /\ operations' = logProgress(operations, 100)
                /\ calls' = [calls EXCEPT ![id] =
                               Success([c EXCEPT !.pre = IF IsFile(fs, c.path)
                                                         THEN fs[c.path].data ELSE NULL])]
    /\ UNCHANGED now

RestoreCopy(id) ==
    /\ id \in Ids /\ calls[id].pc = "r_copy"
    /\ LET c == calls[id]
           backupPath == c.backup.backup_path
       IN  IF ~CopyFileOk(fs, backupPath, c.path)
           THEN /\ calls' = [calls EXCEPT ![id] = Failure(c)]
                /\ UNCHANGED <<fs, operations>>
           ELSE /\ fs' = CopyFile(fs, backupPath, c.path)
                /\ operations' = logProgress(operations, 100)
                /\ calls' = [calls EXCEPT ![id] =
                               Success([c EXCEPT !.pre = IF IsFile(fs, c.path)
                                                         THEN fs[c.path].data ELSE NULL])]
    /\ UNCHANGED now

(***************************************************************************)
(* Copy engine (lines 991-1037).  A tree copy is taken as one step, at the *)
(* completion of `await copyFolderContents(...)`; a copy that throws half  *)
(* way leaves what it had copied.                                          *)
(***************************************************************************)
\* minimatch(name, glob) for the globs of the model
Minimatch(n, glob) ==
    /\ n.cls = "plain"
    /\ \/ glob = "*.txt" /\ n.base \in {"f.txt", "g.txt"}
       \/ glob = "s" /\ n.base = "s"

RECURSIVE copyFolderRecursive(_, _, _, _, _), CopyEntries(_, _, _, _, _, _)
CopyEntries(f, sourcePath, targetPath, entries, includePattern, excludePattern) ==
    IF entries = <<>> THEN [fs |-> f, ok |-> TRUE]
    ELSE LET n == Head(entries)
             srcPath == Join(sourcePath, n)
             destPath == Join(targetPath, n)
             rest == Tail(entries)
         IN  IF excludePattern # NoGlob /\ Minimatch(n, excludePattern)
             THEN CopyEntries(f, sourcePath, targetPath, rest, includePattern, excludePattern)
             ELSE IF includePattern # NoGlob /\ ~Minimatch(n, includePattern)
             THEN CopyEntries(f, sourcePath, targetPath, rest, includePattern, excludePattern)
             ELSE IF IsDir(f, srcPath)
             THEN LET r == copyFolderRecursive(f, srcPath, destPath, includePattern, excludePattern)
                  IN  IF r.ok
                      THEN CopyEntries(r.fs, sourcePath, targetPath, rest, includePattern, excludePattern)
                      ELSE r
             ELSE IF CopyFileOk(f, srcPath, destPath)
             THEN CopyEntries(CopyFile(f, srcPath, destPath), sourcePath, targetPath, rest,
                              includePattern, excludePattern)
             ELSE [fs |-> f, ok |-> FALSE]
copyFolderRecursive(f, sourcePath, targetPath, includePattern, excludePattern) ==
    IF ~Exists(f, targetPath) /\ ~MkdirOk(f, targetPath) THEN [fs |-> f, ok |-> FALSE]
    ELSE LET f1 == IF ~Exists(f, targetPath) THEN MkdirP(f, targetPath) ELSE f
         IN  IF ~IsDir(f1, sourcePath) THEN [fs |-> f1, ok |-> FALSE]
             ELSE CopyEntries(f1, sourcePath, targetPath, Readdir(f1, sourcePath),
                              includePattern, excludePattern)

copyFolderContents(f, sourcePath, targetPath, includePattern, excludePattern) ==
    IF sourcePath = <<>> \/ targetPath = <<>> \/ ~MkdirOk(f, targetPath)
    THEN [fs |-> f, ok |-> FALSE]
    ELSE copyFolderRecursive(MkdirP(f, targetPath), sourcePath, targetPath,
                             includePattern, excludePattern)

(***************************************************************************)
(* Folder lookup (lines 829-834, 889-925).                                 *)
(***************************************************************************)
\* String.prototype.toLowerCase on a base name
ToLower(b) == IF b = "D" THEN "d" ELSE IF b = "S" THEN "s" ELSE b
LowerPath(p) == [i \in 1..Len(p) |-> [p[i] EXCEPT !.base = ToLower(@)]]

\* (child + sep).startsWith(parent + sep), both lower-cased
isParentPath(parentPath, childPath) == IsPrefix(LowerPath(parentPath), LowerPath(childPath))

findBackupsByFolderPath(f, folderPath) ==
    LET metadataFiles == findAllBackupMetadataFiles(f, BACKUP_DIR_NORMALIZED)
        Keep(m) == /\ isFolderMetadata(f, m)
                   /\ \/ m.original_path = folderPath
                      \/ isParentPath(m.original_path, folderPath)
                      \/ isParentPath(folderPath, m.original_path)
        \* b.timestamp.localeCompare(a.timestamp) < 0
        NewestFirst(a, b) == b.timestamp < a.timestamp
    IN  StableSort(SelectSeqMeta(f, metadataFiles, Keep), NewestFirst)

(***************************************************************************)
(* backup_folder_create (lines 369-441).                                   *)
(***************************************************************************)
DispatchFolderCreate(p, include_pattern, exclude_pattern) ==
    /\ Allocate("backup_folder_create",
                [NewCall("backup_folder_create", p, 0, "absent", 0, "fc_stat")
                   EXCEPT !.include_pattern = include_pattern,
                          !.exclude_pattern = exclude_pattern])
    /\ UNCHANGED <<fs, now>>

\* validateFolderExists returns; up to `await ensureBackupDirectoryExists(backupDir)`
FolderCreateStat(id, t) ==
    /\ id \in Ids /\ calls[id].pc = "fc_stat"
    /\ t >= now
    /\ IF IsDir(fs, calls[id].path)
       THEN /\ calls' = [calls EXCEPT ![id] = [@ EXCEPT !.pc = "fc_mkdir", !.ts = t]]
            /\ now' = t
       ELSE /\ t = now
            /\ calls' = [calls EXCEPT ![id] = Failure(@)]
            /\ UNCHANGED now
    /\ UNCHANGED <<fs, operations>>

\* progress 10, first checkpoint, up to `await copyFolderContents(...)`
FolderCreateMkdir(id) ==
    /\ id \in Ids /\ calls[id].pc = "fc_mkdir"
    /\ LET c == calls[id]
           backupDir == getBackupDir(c.path)
       IN  IF ~MkdirOk(fs, backupDir)
           THEN /\ calls' = [calls EXCEPT ![id] = Failure(c)]
                /\ UNCHANGED <<fs, operations>>
           ELSE /\ fs' = MkdirP(fs, backupDir)
                /\ operations' = logProgress(operations, 10)
                /\ calls' = [calls EXCEPT ![id] =
                               IF checkOperationCancelled(operations, id)
                               THEN Cancelled(c)
                               ELSE [c EXCEPT !.pc = "fc_copy"]]
    /\ UNCHANGED now

\* the tree is copied; progress 70, second checkpoint (its cleanup removes the
\* copied tree), descriptor, progress 90, retention, progress 100, result
FolderCreateCopy(id) ==
    /\ id \in Ids /\ calls[id].pc = "fc_copy"
    /\ LET c == calls[id]
           backupFolderPath == Join(getBackupDir(c.path), getBackupFolderName(c.path, c.ts))
           metadataPath == getBackupMetadataFilename(backupFolderPath)
           r == copyFolderContents(fs, c.path, backupFolderPath,
                                   c.include_pattern, c.exclude_pattern)
           metadata == createBackupMetadata(c.path, c.ts, backupFolderPath, "ctx")
           fs2 == saveBackupMetadata(r.fs, metadataPath, metadata)
           pass == cleanupOldBackups(fs2, c.path)
       IN  IF ~r.ok
           THEN /\ fs' = r.fs
                /\ calls' = [calls EXCEPT ![id] = Failure(c)]
                /\ UNCHANGED operations
           ELSE IF checkOperationCancelled(operations, id)
           THEN /\ fs' = IF Exists(r.fs, backupFolderPath)
                         THEN RmRecursive(r.fs, backupFolderPath) ELSE r.fs
                /\ operations' = logProgress(operations, 70)
                /\ calls' = [calls EXCEPT ![id] = Cancelled(c)]
           ELSE /\ fs' = pass.fs
                /\ operations' =
                     logProgress(logProgress(logProgress(operations, 70), 90), 100)
                /\ calls' = [calls EXCEPT ![id] = Success([c EXCEPT !.kept = pass.kept])]
    /\ UNCHANGED now

(***************************************************************************)
(* backup_folder_restore (lines 477-544) and createEmergencyFolderBackup   *)
(* (lines 1093-1143).                                                      *)
(***************************************************************************)
\* const { create_emergency_backup = true } = params
FlagOfFolderRestore(em) == em # "false"

\* the catch of lines 535-543
MarkError(ops, id) == IF id \in DOMAIN ops THEN [ops EXCEPT ![id].status = "error"] ELSE ops
MarkIfError(ops, id, frame) == IF frame.result = "error" THEN MarkError(ops, id) ELSE ops

\* from "Check if backup path exists" to `await copyFolderContents(backup_path, folderPath)`
FolderRestoreChecks(ops, id, c, f) ==
    IF c.backup.backup_path = <<>> \/ ~Exists(f, c.backup.backup_path) THEN Failure(c)
    ELSE IF checkOperationCancelled(ops, id) THEN Cancelled(c)
    ELSE [c EXCEPT !.pc = "fr_copy"]

\* the result of backup_folder_restore(p, timestamp, create_emergency_backup =
\* false) run alone from `f`, and what it leaves at and below `p`
PlainFolderRestore(f, p, timestamp) ==
    LET hits == SelectSeq(findBackupsByFolderPath(f, p), LAMBDA b : b.timestamp = timestamp)
        backupPath == Head(hits).backup_path
        r == copyFolderContents(f, backupPath, p, NoGlob, NoGlob)
    IN  IF ~IsDir(f, p) \/ hits = <<>>
        THEN [result |-> "error", content |-> ContentAt(f, p)]
        ELSE IF backupPath = <<>> \/ ~Exists(f, backupPath)
        THEN [result |-> "error", content |-> ContentAt(f, p)]
        ELSE [result |-> IF r.ok THEN "success" ELSE "error", content |-> ContentAt(r.fs, p)]

DispatchFolderRestore(p, timestamp, em) ==
    /\ Allocate("backup_folder_restore",
                NewCall("backup_folder_restore", p, timestamp, em, 0, "fr_stat"))
    /\ UNCHANGED <<fs, now>>

\* the same, recording in the frame what the call would do without the
\* emergency copy
DispatchFolderRestoreTraced(p, timestamp, em) ==
    /\ Allocate("backup_folder_restore",
                [NewCall("backup_folder_restore", p, timestamp, em, 0, "fr_stat")
                   EXCEPT !.before = ContentAt(fs, p),
                          !.plain = PlainFolderRestore(fs, p, timestamp)])
    /\ UNCHANGED <<fs, now>>

\* validateFolderExists returns; progress 0, the lookup, progress 10, then the
\* emergency copy up to `await ensureEmergencyBackupDir()`, or the checks
FolderRestoreStat(id) ==
    /\ id \in Ids /\ calls[id].pc = "fr_stat"
    /\ LET c == calls[id]
           backups == findBackupsByFolderPath(fs, c.path)
           hits == SelectSeq(backups, LAMBDA b : b.timestamp = c.ts)
           found == [c EXCEPT !.backup = Head(hits)]
           frame == IF hits = <<>> THEN Failure(c)
                    ELSE IF FlagOfFolderRestore(c.em) /\ Exists(fs, c.path)
                    THEN [found EXCEPT !.pc = "fe_dir"]
                    ELSE FolderRestoreChecks(operations, id, found, fs)
       IN  IF ~IsDir(fs, c.path)
           THEN /\ calls' = [calls EXCEPT ![id] = Failure(c)]
                /\ UNCHANGED operations
           ELSE /\ calls' = [calls EXCEPT ![id] = frame]
                /\ operations' =
                     MarkIfError(logProgress(logProgress(operations, 0), 10), id, frame)
    /\ UNCHANGED <<fs, now>>

FolderEmergencyDir(id, t) ==
    /\ id \in Ids /\ calls[id].pc = "fe_dir"
    /\ t >= now
    /\ fs' = MkdirP(fs, EMERGENCY_BACKUP_DIR_NORMALIZED)
    /\ calls' = [calls EXCEPT ![id] = [@ EXCEPT !.pc = "fe_mkdir", !.ets = t]]
    /\ now' = t
    /\ UNCHANGED operations

FolderEmergencyMkdir(id) ==
    /\ id \in Ids /\ calls[id].pc = "fe_mkdir"
    /\ fs' = MkdirP(fs, emergencyBackupDir(calls[id].path))
    /\ calls' = [calls EXCEPT ![id] = [@ EXCEPT !.pc = "fe_copy"]]
    /\ UNCHANGED <<now, operations>>

\* the tree is copied, up to `await writeFile(metadataPath, ...)`; a failed
\* copy is caught and createEmergencyFolderBackup returns null
FolderEmergencyCopy(id) ==
    /\ id \in Ids /\ calls[id].pc = "fe_copy"
    /\ LET c == calls[id]
           backupPath == emergencyBackupPath(c.path, c.ets)
           r == copyFolderContents(fs, c.path, backupPath, NoGlob, NoGlob)
           frame == IF r.ok THEN [c EXCEPT !.pc = "fe_meta", !.emMade = @ \cup {backupPath}]
                    ELSE FolderRestoreChecks(operations, id, [c EXCEPT !.emFailed = TRUE], r.fs)
       IN  /\ fs' = r.fs
           /\ calls' = [calls EXCEPT ![id] = frame]
           /\ operations' = MarkIfError(operations, id, frame)
    /\ UNCHANGED now

FolderEmergencyMeta(id) ==
    /\ id \in Ids /\ calls[id].pc = "fe_meta"
    /\ LET c == calls[id]
           backupPath == emergencyBackupPath(c.path, c.ets)
           metadata == createBackupMetadata(c.path, c.ets, backupPath, "emergency")
           fs1 == WriteNode(fs, emergencyMetadataPath(c.path, c.ets), MetaNode(metadata))
           frame == FolderRestoreChecks(operations, id, c, fs1)
       IN  /\ fs' = fs1
           /\ calls' = [calls EXCEPT ![id] = frame]
           /\ operations' = MarkIfError(operations, id, frame)
    /\ UNCHANGED now

\* an awaited request of createEmergencyFolderBackup rejects with an I/O
\* error: the catch of lines 1139-1142 returns null
FolderEmergencyFails(id) ==
    /\ id \in Ids /\ calls[id].pc \in {"fe_dir", "fe_mkdir", "fe_copy", "fe_meta"}
    /\ LET frame == FolderRestoreChecks(operations, id, [calls[id] EXCEPT !.emFailed = TRUE], fs)
       IN  /\ calls' = [calls EXCEPT ![id] = frame]
           /\ operations' = MarkIfError(operations, id, frame)
    /\ UNCHANGED <<fs, now>>

\* a restore that replaces the folder: the files under the original are
\* removed before the tree is copied
FolderRestoreCopyReplacing(id) ==
    /\ id \in Ids /\ calls[id].pc = "fr_copy"
    /\ LET c == calls[id]
           emptied == [q \in {q \in DOMAIN fs : ~(IsPrefix(c.path, q) /\ IsFile(fs, q))} |-> fs[q]]
           r == copyFolderContents(emptied, c.backup.backup_path, c.path, NoGlob, NoGlob)
       IN  /\ fs' = r.fs
           /\ IF r.ok
              THEN /\ operations' = logProgress(operations, 100)
                   /\ calls' = [calls EXCEPT ![id] = Success(c)]
              ELSE /\ operations' = MarkError(operations, id)
                   /\ calls' = [calls EXCEPT ![id] = Failure(c)]
    /\ UNCHANGED now

\* the tree is copied over the original; progress 100, result
FolderRestoreCopy(id) ==
    /\ id \in Ids /\ calls[id].pc = "fr_copy"
    /\ LET c == calls[id]
           r == copyFolderContents(fs, c.backup.backup_path, c.path, NoGlob, NoGlob)
       IN  /\ fs' = r.fs
           /\ IF r.ok
              THEN /\ operations' = logProgress(operations, 100)
                   /\ calls' = [calls EXCEPT ![id] = Success(c)]
              ELSE /\ operations' = MarkError(operations, id)
                   /\ calls' = [calls EXCEPT ![id] = Failure(c)]
    /\ UNCHANGED now

(***************************************************************************)
(* mcp_cancel (lines 717-739): no await, one step.                         *)
(***************************************************************************)
Cancel(target) ==
    /\ target # NextId          \* the id of the cancel's own operation is a fresh UUID
    /\ LET ops1 == (NextId :> createOperation("mcp_cancel")) @@ operations
           r == cancelOperation(ops1, target)
           frame == NewCall("mcp_cancel", <<>>, 0, "absent", target, "done")
       IN  /\ operations' = r.ops
           /\ calls' = (NextId :> [frame EXCEPT !.result = "success",
                                       !.status = IF r.found THEN "cancelled" ELSE "not_found"])
                       @@ calls
    /\ UNCHANGED <<fs, now>>

(***************************************************************************)
(* backup_list (lines 271-303) and backup_folder_list (lines 443-475).     *)
(***************************************************************************)
\* the handler without its sort
SortNewestFirstSkipped(backups) == backups

\* backups.sort((a, b) => b.timestamp.localeCompare(a.timestamp))
SortNewestFirst(backups) ==
    LET Newer(a, b) == a.timestamp > b.timestamp
    IN  StableSort(backups, Newer)

\* up to `await validateFileExists(filePath)`
DispatchList(p) ==
    /\ operations' = logProgress((NextId :> createOperation("backup_list")) @@ operations, 0)
    /\ calls' = (NextId :> NewCall("backup_list", p, 0, "absent", 0, "l_stat")) @@ calls
    /\ UNCHANGED <<fs, now>>

\* validateFileExists returns; progress 30, lookup, progress 70, sort, progress 100
ListStat(id) ==
    /\ id \in Ids /\ calls[id].pc = "l_stat"
    /\ LET c == calls[id]
       IN  IF ~IsFile(fs, c.path)
           THEN /\ calls' = [calls EXCEPT ![id] = Failure(c)]
                /\ UNCHANGED operations
           ELSE /\ operations' = logProgress(logProgress(logProgress(operations, 30), 70), 100)
                /\ calls' = [calls EXCEPT ![id] =
                     Success([c EXCEPT !.listed =
                                SortNewestFirst(findBackupsByFilePath(fs, c.path))])]
    /\ UNCHANGED <<fs, now>>

\* up to `await validateFolderExists(folderPath)`
DispatchFolderList(p) ==
    /\ operations' = logProgress((NextId :> createOperation("backup_folder_list")) @@ operations, 0)
    /\ calls' = (NextId :> NewCall("backup_folder_list", p, 0, "absent", 0, "fl_stat")) @@ calls
    /\ UNCHANGED <<fs, now>>

FolderListStat(id) ==
    /\ id \in Ids /\ calls[id].pc = "fl_stat"
    /\ LET c == calls[id]
       IN  IF ~IsDir(fs, c.path)
           THEN /\ calls' = [calls EXCEPT ![id] = Failure(c)]
                /\ UNCHANGED operations
           ELSE /\ operations' = logProgress(logProgress(logProgress(operations, 30), 70), 100)
                /\ calls' = [calls EXCEPT ![id] =
                     Success([c EXCEPT !.listed =
                                SortNewestFirst(findBackupsByFolderPath(fs, c.path))])]
    /\ UNCHANGED <<fs, now>>

(***************************************************************************)
(* backup_list_all (lines 546-715).  The scan of one store root is taken   *)
(* as one step, at the completion of `await scanBackupDirectory(...)`.     *)
(***************************************************************************)
\* /\.\d{8}-\d{6}-\d{3}$/.test(file.name)
isBackupFile(n) == n.cls \in {"bak", "ebak"}
\* file.name.endsWith('.meta.json')
isMetadataFile(n) == EndsWithMetaJson(n)

\* list-all reporting the entry's own path when no descriptor can be read
listedOriginalPathGuessed(f, filePath) ==
    LET metadataPath == IF isBackupFile(Basename(filePath))
                        THEN getBackupMetadataFilename(filePath) ELSE filePath
        metadata == readBackupMetadata(f, metadataPath)
    IN  IF metadata = NoMeta THEN filePath ELSE metadata.original_path

\* the original_path a result carries: read from `${filePath}.meta.json` for
\* a backup file, from the file itself for a descriptor; null when unreadable
listedOriginalPath(f, filePath) ==
    LET metadataPath == IF isBackupFile(Basename(filePath))
                        THEN getBackupMetadataFilename(filePath) ELSE filePath
        metadata == readBackupMetadata(f, metadataPath)
    IN  IF metadata = NoMeta THEN <<>> ELSE metadata.original_path

\* getAllFiles: directories are walked, never reported; a file is reported
\* when its name is a backup's or a descriptor's
RECURSIVE getAllFiles(_, _), ListEntries(_, _, _)
ListEntries(f, dir, files) ==
    IF files = <<>> THEN <<>>
    ELSE LET filePath == Join(dir, Head(files))
             here == IF IsDir(f, filePath) THEN getAllFiles(f, filePath)
                     ELSE IF isBackupFile(Head(files)) \/ isMetadataFile(Head(files))
                     THEN <<[path |-> filePath, type |-> "file",
                             original_path |-> listedOriginalPath(f, filePath)]>>
                     ELSE <<>>
         IN  here \o ListEntries(f, dir, Tail(files))
getAllFiles(f, dir) == ListEntries(f, dir, Readdir(f, dir))

\* scanBackupDirectory without the check of lines 599-602
scanBackupDirectoryUnchecked(f, directory, cancelled) ==
    IF ~Exists(f, directory) THEN [ok |-> TRUE, results |-> <<>>]
    ELSE [ok |-> TRUE, results |-> getAllFiles(f, directory)]

\* scanBackupDirectory: the cancelled flag is read before each entry, so a
\* set flag throws at the first entry of the root
scanBackupDirectory(f, directory, cancelled) ==
    IF ~Exists(f, directory) THEN [ok |-> TRUE, results |-> <<>>]
    ELSE IF cancelled /\ Readdir(f, directory) # <<>> THEN [ok |-> FALSE, results |-> <<>>]
    ELSE [ok |-> TRUE, results |-> getAllFiles(f, directory)]

\* lines 665-672: after the k-th result of a scan (mainLength and
\* emergencyLength results gathered), progress min(90, floor(total / 10) * 5)
\* is logged when either length is a multiple of 10
RECURSIVE scanProgress(_, _, _, _)
scanProgress(ops, mainLength, emergencyLength, isEmergency) ==
    LET n == IF isEmergency THEN emergencyLength ELSE mainLength
        before == IF n = 0 THEN ops
                  ELSE IF isEmergency
                  THEN scanProgress(ops, mainLength, emergencyLength - 1, TRUE)
                  ELSE scanProgress(ops, mainLength - 1, emergencyLength, FALSE)
        totalFiles == mainLength + emergencyLength
        progress == IF (totalFiles \div 10) * 5 > 90 THEN 90 ELSE (totalFiles \div 10) * 5
    IN  IF n = 0 THEN ops
        ELSE IF mainLength % 10 = 0 \/ emergencyLength % 10 = 0
        THEN logProgress(before, progress)
        ELSE before

\* params.include_emergency !== false
includeEmergency(em) == em # "false"

\* progress 0, up to `await scanBackupDirectory(BACKUP_DIR_NORMALIZED)`
DispatchListAll(em) ==
    /\ operations' = logProgress((NextId :> createOperation("backup_list_all")) @@ operations, 0)
    /\ calls' = (NextId :> NewCall("backup_list_all", <<>>, 0, em, 0, "la_main")) @@ calls
    /\ UNCHANGED <<fs, now>>

\* the main store is scanned; progress 50; without the emergency store,
\* progress 100 and the result
ListAllMain(id) ==
    /\ id \in Ids /\ calls[id].pc = "la_main"
    /\ LET c == calls[id]
           scan == scanBackupDirectory(fs, BACKUP_DIR_NORMALIZED,
                                       checkOperationCancelled(operations, id))
       IN  IF ~scan.ok
           THEN /\ operations' = MarkError(operations, id)
                /\ calls' = [calls EXCEPT ![id] = Failure(c)]
           ELSE IF includeEmergency(c.em)
           THEN /\ operations' =
                     logProgress(scanProgress(operations, Len(scan.results), 0, FALSE), 50)
                /\ calls' = [calls EXCEPT ![id] =
                               [c EXCEPT !.pc = "la_em", !.listed = scan.results]]
           ELSE /\ operations' =
                     logProgress(logProgress(
                         scanProgress(operations, Len(scan.results), 0, FALSE), 50), 100)
                /\ calls' = [calls EXCEPT ![id] = Success([c EXCEPT !.listed = scan.results])]
    /\ UNCHANGED <<fs, now>>

\* list-all making the mirrored emergency directory as well as the root
ListAllEmergencyDeep(id) ==
    /\ id \in Ids /\ calls[id].pc = "la_em"
    /\ LET c == calls[id]
           fs1 == MkdirP(fs, emergencyBackupDir(FileF))
           scan == scanBackupDirectory(fs1, EMERGENCY_BACKUP_DIR_NORMALIZED,
                                       checkOperationCancelled(operations, id))
       IN  /\ fs' = fs1
           /\ IF ~scan.ok
              THEN /\ operations' = MarkError(operations, id)
                   /\ calls' = [calls EXCEPT ![id] =
                                  Failure([c EXCEPT !.listed = <<>>,
                                                    !.discarded = Len(c.listed)])]
              ELSE /\ operations' =
                        logProgress(scanProgress(operations, Len(c.listed),
                                                 Len(scan.results), TRUE), 100)
                   /\ calls' = [calls EXCEPT ![id] = Success([c EXCEPT !.listedEm = scan.results])]
    /\ UNCHANGED now

\* the emergency root is made if missing and scanned; progress 100, result
ListAllEmergency(id) ==
    /\ id \in Ids /\ calls[id].pc = "la_em"
    /\ LET c == calls[id]
           fs1 == MkdirP(fs, EMERGENCY_BACKUP_DIR_NORMALIZED)
           scan == scanBackupDirectory(fs1, EMERGENCY_BACKUP_DIR_NORMALIZED,
                                       checkOperationCancelled(operations, id))
       IN  /\ fs' = fs1
           /\ IF ~scan.ok
              THEN /\ operations' = MarkError(operations, id)
                   /\ calls' = [calls EXCEPT ![id] =
                                  Failure([c EXCEPT !.listed = <<>>,
                                                    !.discarded = Len(c.listed)])]
              ELSE /\ operations' =
                        logProgress(scanProgress(operations, Len(c.listed),
                                                 Len(scan.results), TRUE), 100)
                   /\ calls' = [calls EXCEPT ![id] = Success([c EXCEPT !.listedEm = scan.results])]
    /\ UNCHANGED now

(***************************************************************************)
(* generateTimestamp (lines 755-766).  An instant is a number of           *)
(* milliseconds since 2026-10-25T00:00:00.000Z; a string is the sequence   *)
(* of its characters, a digit being its value and "-" being Dash, which    *)
(* sorts before the digits as in ASCII.  Two settings of TZ are modelled:  *)
(* "UTC", and "Europe/London", where clocks go back from 02:00 to 01:00    *)
(* local time at 01:00 UTC on that day.                                    *)
(***************************************************************************)
Dash == -1
MsPerSecond == 1000
MsPerMinute == 60000
MsPerHour == 3600000
MsPerDay == 86400000
DstEnd == 3600000
Zones == {"UTC", "Europe/London"}

\* the offset of local time from UTC at the instant t
UtcOffset(zone, t) == IF zone = "Europe/London" /\ t < DstEnd THEN MsPerHour ELSE 0
LocalTime(zone, t) == t + UtcOffset(zone, t)

getFullYear(zone, t) == 2026
getMonth(zone, t) == 9
getDate(zone, t) == 25 + (LocalTime(zone, t) \div MsPerDay)
getHours(zone, t) == (LocalTime(zone, t) \div MsPerHour) % 24
getMinutes(zone, t) == (LocalTime(zone, t) \div MsPerMinute) % 60
getSeconds(zone, t) == (LocalTime(zone, t) \div MsPerSecond) % 60
getMilliseconds(zone, t) == LocalTime(zone, t) % 1000

\* String(n) for a natural number
RECURSIVE String(_)
String(n) == IF n < 10 THEN <<n>> ELSE Append(String(n \div 10), n % 10)

\* s.padStart(width, '0')
RECURSIVE padStart(_, _)
padStart(str, width) == IF Len(str) >= width THEN str ELSE padStart(<<0>> \o str, width)

generateTimestamp(zone, t) ==
    LET year == String(getFullYear(zone, t))
        month == padStart(String(getMonth(zone, t) + 1), 2)
        day == padStart(String(getDate(zone, t)), 2)
        hours == padStart(String(getHours(zone, t)), 2)
        minutes == padStart(String(getMinutes(zone, t)), 2)
        seconds == padStart(String(getSeconds(zone, t)), 2)
        milliseconds == padStart(String(getMilliseconds(zone, t)), 3)
    IN  year \o month \o day \o <<Dash>> \o hours \o minutes \o seconds
             \o <<Dash>> \o milliseconds

\* the instants at which the clock is read in SpecStamp
Instants == {1, 9, 10, 999, 1000, 59999, 60000, 3599999, 3600000, 3600001,
             7199999, 7200000, 82799999, 82800000, 86399999, 86400000}

\* the server, started with TZ = zone, reads the clock at the instant t
Stamp(zone, t) ==
    /\ NextId <= StampOps
    /\ \A i \in Ids : calls[i].zone = zone /\ calls[i].instant < t
    /\ t >= now
    /\ now' = t
    /\ calls' = (NextId :> [verb |-> "generateTimestamp", pc |-> "done", zone |-> zone,
                            instant |-> t, stamp |-> generateTimestamp(zone, t)]) @@ calls
    /\ UNCHANGED <<fs, operations>>

(***************************************************************************)
(* getBackupDir (lines 768-781) on path strings.  A string is the sequence *)
(* of its characters; the separator is "/".  The paths are normalized and  *)
(* have no ".." component; they may be relative, and they may begin with a *)
(* drive prefix (an absolute path of Windows).                             *)
(***************************************************************************)
Letters == {"a", "b", "f", "C", "D"}
Str(a, b, c, d, e, f) == SelectSeq(<<a, b, c, d, e, f>>, LAMBDA x : x # "")
OriginalPaths ==
    {Str("/", "a", "/", "f", "", ""), Str("a", "/", "f", "", "", ""),
     Str("/", "b", "/", "f", "", ""), Str("b", "/", "f", "", "", ""),
     Str("/", "a", "/", "b", "/", "f"), Str("a", "/", "b", "/", "f", ""),
     Str("/", "f", "", "", "", ""), Str("f", "", "", "", "", ""),
     Str("C", ":", "/", "a", "/", "f"), Str("D", ":", "/", "a", "/", "f"),
     Str("C", ":", "/", "f", "", ""), Str("/", "a", "/", "a", "/", "f")}

\* path.parse(normalizedPath).dir: what precedes the last separator
parseDir(normalizedPath) ==
    LET seps == {k \in 1..Len(normalizedPath) : normalizedPath[k] = "/"}
        last == CHOOSE k \in seps : \A j \in seps : j <= k
    IN  IF seps = {} THEN <<>>
        ELSE IF last = 1 THEN <<"/">>
        ELSE SubSeq(normalizedPath, 1, last - 1)

\* dir.replace(/^[a-zA-Z]:/, '')
replaceDrive(dir) ==
    IF Len(dir) >= 2 /\ dir[1] \in Letters /\ dir[2] = ":"
    THEN SubSeq(dir, 3, Len(dir)) ELSE dir

\* relativePath.replace(/^[/\\]+/, '')
RECURSIVE replaceLeadingSlashes(_)
replaceLeadingSlashes(relativePath) ==
    IF relativePath # <<>> /\ Head(relativePath) = "/"
    THEN replaceLeadingSlashes(Tail(relativePath)) ELSE relativePath

\* path.join(root, relativePath) for a relativePath without ".."
pathJoin(root, relativePath) ==
    IF relativePath = <<>> THEN root ELSE root \o <<"/">> \o relativePath

\* getBackupDir, the backup root being /bk
getBackupDirString(filePath) ==
    pathJoin(<<"/", "b", "k">>, replaceLeadingSlashes(replaceDrive(parseDir(filePath))))

\* getBackupDir is called with a path
MapPath(filePath) ==
    /\ NextId <= MapperOps
    /\ calls' = (NextId :> [verb |-> "getBackupDir", pc |-> "done", filePath |-> filePath,
                            dir |-> parseDir(filePath),
                            backupDir |-> getBackupDirString(filePath)]) @@ calls
    /\ UNCHANGED <<fs, now, operations>>

(***************************************************************************)
(* Specifications.  Spec: the file verbs and cancel, with the user editing *)
(* and deleting the original.  SpecFolder: the folder verbs and cancel.    *)
(* SpecRetention: create-file-backup and cancel alone, with a longer clock.*)
(***************************************************************************)
Next ==
    \/ \E c \in Contents : EditFile(FileF, c)
    \/ DeleteFile(FileF)
    \/ Room(MaxOps, MaxInFlight) /\ DispatchCreate(FileF)
    \/ \E id \in 1..MaxOps, t \in 1..MaxTime : CreateStat(id, t)
    \/ \E id \in 1..MaxOps : CreateMkdir(id)
    \/ \E id \in 1..MaxOps : CreateCopy(id)
    \/ \E t \in 1..MaxTime, em \in {"true", "false", "absent"} :
          Room(MaxOps, MaxInFlight) /\ DispatchRestore(FileF, t, em)
    \/ \E id \in 1..MaxOps : RestoreFound(id)
    \/ \E id \in 1..MaxOps : RestoreMkdir(id)
    \/ \E id \in 1..MaxOps, t \in 1..MaxTime : EmergencyDir(id, t)
    \/ \E id \in 1..MaxOps : EmergencyMkdir(id)
    \/ \E id \in 1..MaxOps : EmergencyCopy(id)
    \/ \E id \in 1..MaxOps : EmergencyMeta(id)
    \/ \E id \in 1..MaxOps : RestoreCopy(id)
    \/ \E t \in 1..MaxOps : NextId <= MaxOps /\ Cancel(t)

Spec == Init /\ [][Next]_vars

NextFolder ==
    \/ \E c \in Contents : EditFile(FileG, c)
    \/ \E p \in {FolderD, FolderS} : Room(MaxOps, FolderInFlight) /\ DispatchFolderCreate(p, NoGlob, NoGlob)
    \/ \E id \in 1..MaxOps, t \in 1..MaxTime : FolderCreateStat(id, t)
    \/ \E id \in 1..MaxOps : FolderCreateMkdir(id)
    \/ \E id \in 1..MaxOps : FolderCreateCopy(id)
    \/ \E p \in {FolderD, FolderS}, t \in 1..MaxTime, em \in {"true", "false", "absent"} :
          Room(MaxOps, FolderInFlight) /\ DispatchFolderRestore(p, t, em)
    \/ \E id \in 1..MaxOps : FolderRestoreStat(id)
    \/ \E id \in 1..MaxOps, t \in 1..MaxTime : FolderEmergencyDir(id, t)
    \/ \E id \in 1..MaxOps : FolderEmergencyMkdir(id)
    \/ \E id \in 1..MaxOps : FolderEmergencyCopy(id)
    \/ \E id \in 1..MaxOps : FolderEmergencyMeta(id)
    \/ \E id \in 1..MaxOps : FolderRestoreCopy(id)
    \/ \E t \in 1..MaxOps : NextId <= MaxOps /\ Cancel(t)

SpecFolder == Init /\ [][NextFolder]_vars

NextRetention ==
    \/ Room(RetentionOps, MaxInFlight) /\ DispatchCreate(FileF)
    \/ \E id \in 1..RetentionOps, t \in 1..RetentionTime : CreateStat(id, t)
    \/ \E id \in 1..RetentionOps : CreateMkdir(id)
    \/ \E id \in 1..RetentionOps : CreateCopy(id)
    \/ \E t \in 1..RetentionOps : NextId <= RetentionOps /\ Cancel(t)

SpecRetention == Init /\ [][NextRetention]_vars

\* SpecEmergency: creates and restores called one after the other, the user
\* editing between the calls, with I/O errors in the emergency copy
NextEmergency ==
    \/ \E c \in Contents : InFlight = {} /\ EditFile(FileF, c)
    \/ \E c \in Contents : InFlight = {} /\ EditFile(FileG, c)
    \/ InFlight = {} /\ NextId <= EmergencyOps /\ DispatchCreate(FileF)
    \/ \E id \in 1..EmergencyOps, t \in 1..MaxTime : CreateStat(id, t)
    \/ \E id \in 1..EmergencyOps : CreateMkdir(id)
    \/ \E id \in 1..EmergencyOps : CreateCopy(id)
    \/ \E t \in 1..MaxTime, em \in {"true", "false"} :
          InFlight = {} /\ NextId <= EmergencyOps /\ DispatchRestoreTraced(FileF, t, em)
    \/ \E id \in 1..EmergencyOps : RestoreFound(id)
    \/ \E id \in 1..EmergencyOps : RestoreMkdir(id)
    \/ \E id \in 1..EmergencyOps, t \in 1..MaxTime : EmergencyDir(id, t)
    \/ \E id \in 1..EmergencyOps : EmergencyMkdir(id)
    \/ \E id \in 1..EmergencyOps : EmergencyCopy(id)
    \/ \E id \in 1..EmergencyOps : EmergencyMeta(id)
    \/ \E id \in 1..EmergencyOps : EmergencyFails(id)
    \/ \E id \in 1..EmergencyOps : RestoreCopy(id)
    \/ InFlight = {} /\ NextId <= EmergencyOps /\ DispatchFolderCreate(FolderD, NoGlob, NoGlob)
    \/ \E id \in 1..EmergencyOps, t \in 1..MaxTime : FolderCreateStat(id, t)
    \/ \E id \in 1..EmergencyOps : FolderCreateMkdir(id)
    \/ \E id \in 1..EmergencyOps : FolderCreateCopy(id)
    \/ \E t \in 1..MaxTime :
          InFlight = {} /\ NextId <= EmergencyOps /\ DispatchFolderRestoreTraced(FolderD, t, "true")
    \/ \E id \in 1..EmergencyOps : FolderRestoreStat(id)
    \/ \E id \in 1..EmergencyOps, t \in 1..MaxTime : FolderEmergencyDir(id, t)
    \/ \E id \in 1..EmergencyOps : FolderEmergencyMkdir(id)
    \/ \E id \in 1..EmergencyOps : FolderEmergencyCopy(id)
    \/ \E id \in 1..EmergencyOps : FolderEmergencyMeta(id)
    \/ \E id \in 1..EmergencyOps : FolderEmergencyFails(id)
    \/ \E id \in 1..EmergencyOps : FolderRestoreCopy(id)

SpecEmergency == Init /\ [][NextEmergency]_vars

\* SpecPrune: creates that reach the retention cap, restores with an emergency
\* copy, listings and cancel
NextPrune ==
    \/ Room(PruneOps, PruneInFlight) /\ DispatchCreate(FileF)
    \/ \E id \in 1..PruneOps, t \in 1..RetentionTime : CreateStat(id, t)
    \/ \E id \in 1..PruneOps : CreateMkdir(id)
    \/ \E id \in 1..PruneOps : CreateCopy(id)
    \/ \E t \in 1..RetentionTime : Room(PruneOps, PruneInFlight) /\ DispatchRestore(FileF, t, "true")
    \/ \E id \in 1..PruneOps : RestoreFound(id)
    \/ \E id \in 1..PruneOps : RestoreMkdir(id)
    \/ \E id \in 1..PruneOps, t \in 1..RetentionTime : EmergencyDir(id, t)
    \/ \E id \in 1..PruneOps : EmergencyMkdir(id)
    \/ \E id \in 1..PruneOps : EmergencyCopy(id)
    \/ \E id \in 1..PruneOps : EmergencyMeta(id)
    \/ \E id \in 1..PruneOps : RestoreCopy(id)
    \/ Room(PruneOps, PruneInFlight) /\ DispatchList(FileF)
    \/ \E id \in 1..PruneOps : ListStat(id)
    \/ Room(PruneOps, PruneInFlight) /\ DispatchListAll("absent")
    \/ \E id \in 1..PruneOps : ListAllMain(id)
    \/ \E id \in 1..PruneOps : ListAllEmergency(id)
    \/ \E t \in 1..PruneOps : NextId <= PruneOps /\ Cancel(t)

SpecPrune == Init /\ [][NextPrune]_vars

\* SpecLookup: creates and listings of two files, the user deleting one
NextLookup ==
    \/ DeleteFile(FileF)
    \/ \E p \in {FileF, FileG} : Room(LookupOps, MaxInFlight) /\ DispatchCreate(p)
    \/ \E id \in 1..LookupOps, t \in 1..MaxTime : CreateStat(id, t)
    \/ \E id \in 1..LookupOps : CreateMkdir(id)
    \/ \E id \in 1..LookupOps : CreateCopy(id)
    \/ \E p \in {FileF, FileG} : Room(LookupOps, MaxInFlight) /\ DispatchList(p)
    \/ \E id \in 1..LookupOps : ListStat(id)

SpecLookup == Init /\ [][NextLookup]_vars

\* SpecCase: folder creates and listings, one folder's name differing from
\* another's in letter case only
NextCase ==
    \/ MakeFolder(FolderUpper)
    \/ \E p \in {FolderD, FolderS, FolderUpper} :
          Room(CaseOps, MaxInFlight) /\ DispatchFolderCreate(p, NoGlob, NoGlob)
    \/ \E id \in 1..CaseOps, t \in 1..MaxTime : FolderCreateStat(id, t)
    \/ \E id \in 1..CaseOps : FolderCreateMkdir(id)
    \/ \E id \in 1..CaseOps : FolderCreateCopy(id)
    \/ \E p \in {FolderD, FolderS, FolderUpper} :
          Room(CaseOps, MaxInFlight) /\ DispatchFolderList(p)
    \/ \E id \in 1..CaseOps : FolderListStat(id)

SpecCase == Init /\ [][NextCase]_vars

\* SpecOrder: file and folder creates and listings, called one after the other
NextOrder ==
    \/ InFlight = {} /\ NextId <= OrderOps /\ DispatchCreate(FileF)
    \/ \E id \in 1..OrderOps, t \in 1..MaxTime : CreateStat(id, t)
    \/ \E id \in 1..OrderOps : CreateMkdir(id)
    \/ \E id \in 1..OrderOps : CreateCopy(id)
    \/ InFlight = {} /\ NextId <= OrderOps /\ DispatchList(FileF)
    \/ \E id \in 1..OrderOps : ListStat(id)
    \/ \E p \in {FolderD, FolderS} :
          InFlight = {} /\ NextId <= OrderOps /\ DispatchFolderCreate(p, NoGlob, NoGlob)
    \/ \E id \in 1..OrderOps, t \in 1..MaxTime : FolderCreateStat(id, t)
    \/ \E id \in 1..OrderOps : FolderCreateMkdir(id)
    \/ \E id \in 1..OrderOps : FolderCreateCopy(id)
    \/ \E p \in {FolderD, FolderS} : InFlight = {} /\ NextId <= OrderOps /\ DispatchFolderList(p)
    \/ \E id \in 1..OrderOps : FolderListStat(id)

SpecOrder == Init /\ [][NextOrder]_vars

\* SpecIdem: creates, a restore with its emergency copy and every list verb,
\* called one after the other
NextIdem ==
    \/ InFlight = {} /\ NextId <= IdemOps /\ DispatchCreate(FileF)
    \/ \E id \in 1..IdemOps, t \in 1..MaxTime : CreateStat(id, t)
    \/ \E id \in 1..IdemOps : CreateMkdir(id)
    \/ \E id \in 1..IdemOps : CreateCopy(id)
    \/ InFlight = {} /\ NextId <= IdemOps /\ DispatchFolderCreate(FolderD, NoGlob, NoGlob)
    \/ \E id \in 1..IdemOps, t \in 1..MaxTime : FolderCreateStat(id, t)
    \/ \E id \in 1..IdemOps : FolderCreateMkdir(id)
    \/ \E id \in 1..IdemOps : FolderCreateCopy(id)
    \/ \E t \in 1..MaxTime : InFlight = {} /\ NextId <= IdemOps /\ DispatchRestore(FileF, t, "true")
    \/ \E id \in 1..IdemOps : RestoreFound(id)
    \/ \E id \in 1..IdemOps : RestoreMkdir(id)
    \/ \E id \in 1..IdemOps, t \in 1..MaxTime : EmergencyDir(id, t)
    \/ \E id \in 1..IdemOps : EmergencyMkdir(id)
    \/ \E id \in 1..IdemOps : EmergencyCopy(id)
    \/ \E id \in 1..IdemOps : EmergencyMeta(id)
    \/ \E id \in 1..IdemOps : RestoreCopy(id)
    \/ InFlight = {} /\ NextId <= IdemOps /\ DispatchList(FileF)
    \/ \E id \in 1..IdemOps : ListStat(id)
    \/ InFlight = {} /\ NextId <= IdemOps /\ DispatchFolderList(FolderD)
    \/ \E id \in 1..IdemOps : FolderListStat(id)
    \/ \E em \in {"absent", "false"} : InFlight = {} /\ NextId <= IdemOps /\ DispatchListAll(em)
    \/ \E id \in 1..IdemOps : ListAllMain(id)
    \/ \E id \in 1..IdemOps : ListAllEmergency(id)

SpecIdem == Init /\ [][NextIdem]_vars

\* SpecStamp: readings of the clock by generateTimestamp
NextStamp == \E zone \in Zones, t \in Instants : Stamp(zone, t)

SpecStamp == Init /\ [][NextStamp]_vars

\* SpecFilter: folder creates with include and exclude globs
NextFilter ==
    \/ \E include_pattern \in {NoGlob, "*.txt"}, exclude_pattern \in {NoGlob, "*.txt", "s"} :
          Room(FilterOps, MaxInFlight) /\ DispatchFolderCreate(FolderD, include_pattern, exclude_pattern)
    \/ \E id \in 1..FilterOps, t \in 1..MaxTime : FolderCreateStat(id, t)
    \/ \E id \in 1..FilterOps : FolderCreateMkdir(id)
    \/ \E id \in 1..FilterOps : FolderCreateCopy(id)

SpecFilter == Init /\ [][NextFilter]_vars

\* SpecListing: creates of one path followed by listings of it
NextListing ==
    \/ Room(ListingOps, MaxInFlight) /\ DispatchCreate(FileF)
    \/ \E id \in 1..ListingOps, t \in 1..RetentionTime : CreateStat(id, t)
    \/ \E id \in 1..ListingOps : CreateMkdir(id)
    \/ \E id \in 1..ListingOps : CreateCopy(id)
    \/ Room(ListingOps, MaxInFlight) /\ DispatchList(FileF)
    \/ \E id \in 1..ListingOps : ListStat(id)

SpecListing == Init /\ [][NextListing]_vars

\* SpecCancelAll: list-all over stores filled by a create and a restore, one
\* call at a time, with cancel (of any operation) arriving while a list-all
\* is in flight
NextCancelAll ==
    \/ InFlight = {} /\ NextId <= CancelOps /\ DispatchCreate(FileF)
    \/ \E id \in 1..CancelOps, t \in 1..MaxTime : CreateStat(id, t)
    \/ \E id \in 1..CancelOps : CreateMkdir(id)
    \/ \E id \in 1..CancelOps : CreateCopy(id)
    \/ \E t \in 1..MaxTime : InFlight = {} /\ NextId <= CancelOps /\ DispatchRestore(FileF, t, "true")
    \/ \E id \in 1..CancelOps : RestoreFound(id)
    \/ \E id \in 1..CancelOps : RestoreMkdir(id)
    \/ \E id \in 1..CancelOps, t \in 1..MaxTime : EmergencyDir(id, t)
    \/ \E id \in 1..CancelOps : EmergencyMkdir(id)
    \/ \E id \in 1..CancelOps : EmergencyCopy(id)
    \/ \E id \in 1..CancelOps : EmergencyMeta(id)
    \/ \E id \in 1..CancelOps : RestoreCopy(id)
    \/ \E em \in {"absent", "false"} : InFlight = {} /\ NextId <= CancelOps /\ DispatchListAll(em)
    \/ \E id \in 1..CancelOps : ListAllMain(id)
    \/ \E id \in 1..CancelOps : ListAllEmergency(id)
    \/ \E t \in 1..CancelOps :
          /\ NextId <= CancelOps
          /\ \E i \in InFlight : calls[i].verb = "backup_list_all"
          /\ Cancel(t)

SpecCancelAll == Init /\ [][NextCancelAll]_vars

\* SpecTolerant: the three list verbs over a main store in which descriptors
\* get truncated or deleted while no call is in progress; one call at a time
NextTolerant ==
    \/ InFlight = {} /\ NextId <= TolerantOps /\ DispatchCreate(FileF)
    \/ \E id \in 1..TolerantOps, t \in 1..MaxTime : CreateStat(id, t)
    \/ \E id \in 1..TolerantOps : CreateMkdir(id)
    \/ \E id \in 1..TolerantOps : CreateCopy(id)
    \/ InFlight = {} /\ NextId <= TolerantOps /\ DispatchFolderCreate(FolderD, NoGlob, NoGlob)
    \/ \E id \in 1..TolerantOps, t \in 1..MaxTime : FolderCreateStat(id, t)
    \/ \E id \in 1..TolerantOps : FolderCreateMkdir(id)
    \/ \E id \in 1..TolerantOps : FolderCreateCopy(id)
    \/ \E d \in DOMAIN fs : InFlight = {} /\ CorruptDescriptor(d)
    \/ \E d \in DOMAIN fs : InFlight = {} /\ DeleteDescriptor(d)
    \/ InFlight = {} /\ NextId <= TolerantOps /\ DispatchList(FileF)
    \/ \E id \in 1..TolerantOps : ListStat(id)
    \/ InFlight = {} /\ NextId <= TolerantOps /\ DispatchFolderList(FolderD)
    \/ \E id \in 1..TolerantOps : FolderListStat(id)
    \/ InFlight = {} /\ NextId <= TolerantOps /\ DispatchListAll("absent")
    \/ \E id \in 1..TolerantOps : ListAllMain(id)
    \/ \E id \in 1..TolerantOps : ListAllEmergency(id)

SpecTolerant == Init /\ [][NextTolerant]_vars

\* SpecInvalid: calls that lack an argument and creates of paths that may
\* not exist, next to creates that succeed; one call at a time
NextInvalid ==
    \/ \E c \in Contents : EditFile(FileF, c)
    \/ DeleteFile(FileF)
    \/ MakeFolder(FolderUpper)
    \/ InFlight = {} /\ NextId <= InvalidOps /\ DispatchCreate(FileF)
    \/ \E id \in 1..InvalidOps, t \in 1..MaxTime : CreateStat(id, t)
    \/ \E id \in 1..InvalidOps : CreateMkdir(id)
    \/ \E id \in 1..InvalidOps : CreateCopy(id)
    \/ InFlight = {} /\ NextId <= InvalidOps /\ DispatchFolderCreate(FolderUpper, NoGlob, NoGlob)
    \/ \E id \in 1..InvalidOps, t \in 1..MaxTime : FolderCreateStat(id, t)
    \/ \E id \in 1..InvalidOps : FolderCreateMkdir(id)
    \/ \E id \in 1..InvalidOps : FolderCreateCopy(id)
    \/ \E verb \in VerbsWithRequired : InFlight = {} /\ NextId <= InvalidOps /\ DispatchInvalid(verb)

SpecInvalid == Init /\ [][NextInvalid]_vars

\* SpecMapper: getBackupDir applied to paths
NextMapper == \E filePath \in OriginalPaths : MapPath(filePath)

SpecMapper == Init /\ [][NextMapper]_vars

\* SpecCancelRestore: file and folder restores called one after the other,
\* the user editing between the calls, with cancel arriving while a restore
\* is in progress; the file restore without its emergency copy (both of its
\* checkpoints precede it), the folder restore with it
NextCancelRestore ==
    \/ \E c \in Contents : InFlight = {} /\ EditFile(FileF, c)
    \/ InFlight = {} /\ NextId <= RestoreOps /\ DispatchCreate(FileF)
    \/ \E id \in 1..RestoreOps, t \in 1..MaxTime : CreateStat(id, t)
    \/ \E id \in 1..RestoreOps : CreateMkdir(id)
    \/ \E id \in 1..RestoreOps : CreateCopy(id)
    \/ \E t \in 1..MaxTime :
          InFlight = {} /\ NextId <= RestoreOps /\ DispatchRestoreTraced(FileF, t, "false")
    \/ \E id \in 1..RestoreOps : RestoreFound(id)
    \/ \E id \in 1..RestoreOps : RestoreMkdir(id)
    \/ \E id \in 1..RestoreOps : RestoreCopy(id)
    \/ InFlight = {} /\ NextId <= RestoreOps /\ DispatchFolderCreate(FolderD, NoGlob, NoGlob)
    \/ \E id \in 1..RestoreOps, t \in 1..MaxTime : FolderCreateStat(id, t)
    \/ \E id \in 1..RestoreOps : FolderCreateMkdir(id)
    \/ \E id \in 1..RestoreOps : FolderCreateCopy(id)
    \/ \E t \in 1..MaxTime :
          InFlight = {} /\ NextId <= RestoreOps /\ DispatchFolderRestoreTraced(FolderD, t, "true")
    \/ \E id \in 1..RestoreOps : FolderRestoreStat(id)
    \/ \E id \in 1..RestoreOps, t \in 1..MaxTime : FolderEmergencyDir(id, t)
    \/ \E id \in 1..RestoreOps : FolderEmergencyMkdir(id)
    \/ \E id \in 1..RestoreOps : FolderEmergencyCopy(id)
    \/ \E id \in 1..RestoreOps : FolderEmergencyMeta(id)
    \/ \E id \in 1..RestoreOps : FolderRestoreCopy(id)
    \/ \E t \in 1..RestoreOps :
          /\ NextId <= RestoreOps
          /\ t \in InFlight /\ calls[t].verb \in {"backup_restore", "backup_folder_restore"}
          /\ Cancel(t)

SpecCancelRestore == Init /\ [][NextCancelRestore]_vars

\* SpecLateCancel: creates and restores of a file called one after the other,
\* with cancel naming any operation, in progress or returned
NextLateCancel ==
    \/ \E c \in Contents : InFlight = {} /\ EditFile(FileF, c)
    \/ InFlight = {} /\ NextId <= LateOps /\ DispatchCreate(FileF)
    \/ \E id \in 1..LateOps, t \in 1..MaxTime : CreateStat(id, t)
    \/ \E id \in 1..LateOps : CreateMkdir(id)
    \/ \E id \in 1..LateOps : CreateCopy(id)
    \/ \E t \in 1..MaxTime, em \in {"true", "false"} :
          InFlight = {} /\ NextId <= LateOps /\ DispatchRestoreTraced(FileF, t, em)
    \/ \E id \in 1..LateOps : RestoreFound(id)
    \/ \E id \in 1..LateOps : RestoreMkdir(id)
    \/ \E id \in 1..LateOps, t \in 1..MaxTime : EmergencyDir(id, t)
    \/ \E id \in 1..LateOps : EmergencyMkdir(id)
    \/ \E id \in 1..LateOps : EmergencyCopy(id)
    \/ \E id \in 1..LateOps : EmergencyMeta(id)
    \/ \E id \in 1..LateOps : RestoreCopy(id)
    \/ \E t \in 1..LateOps : NextId <= LateOps /\ t \in Ids /\ Cancel(t)

SpecLateCancel == Init /\ [][NextLateCancel]_vars

\* SpecTracker: the operation tracker under every file verb, the list verbs
\* and cancel
NextTracker ==
    \/ Room(TrackerOps, MaxInFlight) /\ DispatchCreate(FileF)
    \/ \E id \in 1..TrackerOps, t \in 1..MaxTime : CreateStat(id, t)
    \/ \E id \in 1..TrackerOps : CreateMkdir(id)
    \/ \E id \in 1..TrackerOps : CreateCopy(id)
    \/ \E t \in 1..MaxTime, em \in {"true", "absent"} :
          Room(TrackerOps, MaxInFlight) /\ DispatchRestore(FileF, t, em)
    \/ \E id \in 1..TrackerOps : RestoreFound(id)
    \/ \E id \in 1..TrackerOps : RestoreMkdir(id)
    \/ \E id \in 1..TrackerOps, t \in 1..MaxTime : EmergencyDir(id, t)
    \/ \E id \in 1..TrackerOps : EmergencyMkdir(id)
    \/ \E id \in 1..TrackerOps : EmergencyCopy(id)
    \/ \E id \in 1..TrackerOps : EmergencyMeta(id)
    \/ \E id \in 1..TrackerOps : RestoreCopy(id)
    \/ Room(TrackerOps, MaxInFlight) /\ DispatchList(FileF)
    \/ \E id \in 1..TrackerOps : ListStat(id)
    \/ \E em \in {"false", "absent"} : Room(TrackerOps, MaxInFlight) /\ DispatchListAll(em)
    \/ \E id \in 1..TrackerOps : ListAllMain(id)
    \/ \E id \in 1..TrackerOps : ListAllEmergency(id)
    \/ \E t \in 1..TrackerOps : NextId <= TrackerOps /\ Cancel(t)

SpecTracker == Init /\ [][NextTracker]_vars

(***************************************************************************)
(* Properties.                                                             *)
(***************************************************************************)
CreateVerbs == {"backup_create", "backup_folder_create"}
RestoreVerbs == {"backup_restore", "backup_folder_restore"}
CreateVerbOf(verb) ==
    IF verb = "backup_restore" THEN "backup_create" ELSE "backup_folder_create"

\* the call `id` returns in this step, with `result`
Returns(id, result) ==
    /\ id \in DOMAIN calls' /\ calls'[id].pc = "done" /\ calls'[id].result = result
    /\ (id \in Ids => calls[id].pc # "done")

\* where the main store keeps version `timestamp` of `p`, and its descriptor
MainPayload(p, timestamp) == Join(getBackupDir(p), getBackupFilename(p, timestamp))
MainDescriptor(p, timestamp) == getBackupMetadataFilename(MainPayload(p, timestamp))

\* the successful creates of `p` that returned before the call `r` was made
CreatedBefore(r, p, timestamp) ==
    {c \in calls[r].prior : /\ calls[c].verb = CreateVerbOf(calls[r].verb)
                            /\ calls[c].result = "success"
                            /\ calls[c].path = p /\ calls[c].ts = timestamp}

\* nothing at or below `p` differs between this state and the next
SameUnder(p) ==
    \A q \in DOMAIN fs \cup DOMAIN fs' :
        IsPrefix(p, q) => q \in DOMAIN fs /\ q \in DOMAIN fs' /\ fs'[q] = fs[q]

\* C1: when restore-file-backup(F, T) returns a success result, F holds the
\* content that each earlier successful create-file-backup(F) which took the
\* timestamp T copied
C1_RoundTrip ==
    [][\A r \in Ids :
          (calls[r].verb = "backup_restore" /\ Returns(r, "success")) =>
              \A c \in CreatedBefore(r, calls[r].path, calls[r].ts) :
                  /\ IsFile(fs', calls[r].path)
                  /\ fs'[calls[r].path].data = calls[c].copied]_vars

\* the creates of `p` that have taken a timestamp took different ones
DistinctTimestamps(p) ==
    \A i, j \in Ids :
        (/\ i # j
         /\ calls[i].verb = "backup_create" /\ calls[j].verb = "backup_create"
         /\ calls[i].path = p /\ calls[j].path = p
         /\ calls[i].ts # 0) => calls[i].ts # calls[j].ts

\* the creates of `p` that returned a success result
SuccessfulCreates(p) ==
    {i \in Ids : /\ calls[i].verb = "backup_create" /\ calls[i].path = p
                 /\ calls[i].result = "success"}
\* their timestamps
SuccessfulStamps(p) == {calls[i].ts : i \in SuccessfulCreates(p)}
\* the timestamps of the payloads of `p` present in the main store
PayloadStamps(p) == {t \in 1..now : IsFile(fs, MainPayload(p, t))}
\* the m greatest elements of S
Greatest(S, m) == {t \in S : Cardinality({u \in S : u > t}) < m}

\* after N > maxVersions successful creates of P with distinct timestamps and
\* no call in progress, the payloads of P are the maxVersions newest
RetentionSurvivors(p) ==
    (/\ InFlight = {}
     /\ DistinctTimestamps(p)
     /\ Cardinality(SuccessfulCreates(p)) > MAX_VERSIONS)
    => PayloadStamps(p) = Greatest(SuccessfulStamps(p), MAX_VERSIONS)

\* the payload of the create `id` is in the store when `id` returns success
OwnPayloadKept(id) ==
    IsFile(fs', MainPayload(calls[id].path, calls[id].ts))
\* fewer than maxVersions successful creates of the same path have a later timestamp
AmongNewest(id) ==
    Cardinality({t \in SuccessfulStamps(calls[id].path)' : t > calls[id].ts}) < MAX_VERSIONS

\* C2 (as amended): with distinct timestamps and maxVersions = M < N, once no
\* call is in progress the payloads of P in the main store are exactly the M
\* with the greatest timestamps; the pass run by a create keeps the backup
\* that create just made exactly when fewer than M successful creates of P
\* took a later timestamp
C2_RetentionSurvivors ==
    [][/\ RetentionSurvivors(FileF)'
       /\ \A id \in Ids :
            (/\ calls[id].verb = "backup_create" /\ Returns(id, "success")
             /\ DistinctTimestamps(calls[id].path)')
            => (OwnPayloadKept(id) <=> AmongNewest(id))]_vars

\* C2 witness: three successful creates of F with distinct timestamps have
\* returned, nothing is in progress, and the two newest payloads are left
C2_Witness ==
    /\ InFlight = {}
    /\ DistinctTimestamps(FileF)
    /\ Cardinality(SuccessfulCreates(FileF)) = MAX_VERSIONS + 1
    /\ Cardinality(PayloadStamps(FileF)) = MAX_VERSIONS
    /\ PayloadStamps(FileF) = Greatest(SuccessfulStamps(FileF), MAX_VERSIONS)

\* C2 (as claimed): ... and the pass run by a create never deletes the backup
\* that create just made
C2_OwnBackupSurvives ==
    [][/\ RetentionSurvivors(FileF)'
       /\ \A id \in Ids :
            (/\ calls[id].verb = "backup_create" /\ Returns(id, "success")
             /\ DistinctTimestamps(calls[id].path)')
            => OwnPayloadKept(id)]_vars

\* C3: a successful restore-file-backup(F, T) with make-emergency = true that
\* changes the content of the existing F has written exactly one emergency
\* entry, which holds the content F had just before it was overwritten
C3_OneEmergencyEntry ==
    [][\A r \in Ids :
          (/\ calls[r].verb = "backup_restore" /\ calls[r].em = "true"
           /\ Returns(r, "success")
           /\ IsFile(fs, calls[r].path)
           /\ fs[calls[r].path].data # fs'[calls[r].path].data)
          => /\ Cardinality(calls'[r].emMade) = 1
             /\ \A e \in calls'[r].emMade :
                   IsFile(fs', e) /\ fs'[e].data = fs[calls[r].path].data]_vars

\* C4: a restore called without the make-emergency argument that overwrote an
\* existing original has written an emergency entry, as with make-emergency = true
C4_DefaultEmergency ==
    \A r \in Done :
        (/\ calls[r].verb \in RestoreVerbs /\ calls[r].em = "absent"
         /\ calls[r].result = "success"
         /\ (calls[r].verb = "backup_restore" => calls[r].pre # NULL))
        => calls[r].emMade # {}

\* C5: a restore naming a timestamp for which no create of the requested path
\* ever wrote an entry returns an error result and changes nothing at or
\* below the original path
C5_MissingBackupRestore ==
    [][\A r \in Ids :
          (/\ calls[r].verb \in RestoreVerbs
           /\ calls[r].pc # "done" /\ calls'[r].pc = "done"
           /\ {c \in Ids : /\ calls[c].verb = CreateVerbOf(calls[r].verb)
                           /\ calls[c].result = "success"
                           /\ calls[c].path = calls[r].path
                           /\ calls[c].ts = calls[r].ts} = {})
          => calls'[r].result = "error" /\ SameUnder(calls[r].path)]_vars

\* the entry (P, T) of the restore `r` was written before `r` was called and
\* is in the main store with its payload
EntryIntact(r) ==
    LET d == MainDescriptor(calls[r].path, calls[r].ts)
    IN  /\ CreatedBefore(r, calls[r].path, calls[r].ts) # {}
        /\ IsFile(fs, d)
        /\ fs[d].meta.original_path = calls[r].path
        /\ fs[d].meta.timestamp = calls[r].ts
        /\ Exists(fs, fs[d].meta.backup_path)

\* C6: a restore whose entry and payload exist and whose original P is gone
\* (its parent directory is there) does not fail
C6_RestoreDeletedOriginal ==
    [][\A r \in Ids :
          (/\ calls[r].verb \in RestoreVerbs /\ calls[r].pc # "done"
           /\ EntryIntact(r)
           /\ IsDir(fs, Dirname(calls[r].path))
           /\ ~Exists(fs, calls[r].path))
          => calls'[r].result # "error"]_vars

\* C7: a create that returns the cancellation result has deleted or changed
\* nothing that was in the main store and leaves there no payload and no
\* descriptor of its own
C7_CancelledCreateNoResidue ==
    [][\A c \in Ids :
          (calls[c].verb \in CreateVerbs /\ Returns(c, "cancelled"))
          => /\ \A q \in DOMAIN fs :
                   IsPrefix(BACKUP_DIR_NORMALIZED, q) => q \in DOMAIN fs' /\ fs'[q] = fs[q]
             /\ \A q \in {MainPayload(calls[c].path, calls[c].ts),
                          MainDescriptor(calls[c].path, calls[c].ts)} :
                   q \in DOMAIN fs' => q \in DOMAIN fs]_vars

\* C8: a cancel call naming an operation whose call has returned reports
\* failure (not found) and changes no operation
C8_CancelFinished ==
    [][\A k \in DOMAIN calls' \ Ids :
          (calls'[k].verb = "mcp_cancel" /\ calls'[k].target \in Done)
          => /\ calls'[k].status = "not_found"
             /\ \A i \in DOMAIN operations : operations'[i] = operations[i]]_vars

\* C9: an operation is running while its call is in progress, and once the
\* call has returned its status is the outcome: completed, error or cancelled
C9_Lifecycle ==
    \A i \in Ids :
        /\ calls[i].pc # "done" => operations[i].status = "running"
        /\ calls[i].result = "success" => operations[i].status = "completed"
        /\ calls[i].result = "error" => operations[i].status = "error"
        /\ calls[i].result = "cancelled" => operations[i].status = "cancelled"

\* C10: the operation of a create or restore that returned a success result
\* records progress 100
C10_ProgressComplete ==
    \A i \in Done :
        (calls[i].verb \in CreateVerbs \cup RestoreVerbs /\ calls[i].result = "success")
        => operations[i].progress = 100

C12_CancelledFlag ==
    [][\A i \in DOMAIN operations' :
          /\ i \notin DOMAIN operations => ~operations'[i].cancelled
          /\ (i \in DOMAIN operations /\ ~operations[i].cancelled /\ operations'[i].cancelled)
             => \E k \in DOMAIN calls' \ Ids :
                    calls'[k].verb = "mcp_cancel" /\ calls'[k].target = i
          /\ (i \in DOMAIN operations /\ operations[i].cancelled)
             => operations'[i].cancelled]_vars

\* C12 witness: a cancel call has set the flag of the operation it names and
\* of no other
C12_Witness ==
    \E k \in Done :
        /\ calls[k].verb = "mcp_cancel"
        /\ calls[k].target \in DOMAIN operations
        /\ operations[calls[k].target].cancelled
        /\ \A i \in DOMAIN operations \ {calls[k].target} : ~operations[i].cancelled

\* the descriptors of file entries of `p` in the main store of `f`
FileDescriptors(f, p) ==
    {q \in DOMAIN f : /\ IsPrefix(BACKUP_DIR_NORMALIZED, q)
                      /\ IsFile(f, q)
                      /\ f[q].meta # NoMeta
                      /\ f[q].meta.original_path = p
                      /\ ~IsDir(f, f[q].meta.backup_path)}
Min(a, b) == IF a < b THEN a ELSE b

\* C13: the versions-kept value a successful create-file-backup of P returns
\* is min(count, maxVersions), count being the entries of P in the main
\* store once the new entry is written
C13_VersionsKept ==
    [][\A id \in Ids :
          (calls[id].verb = "backup_create" /\ Returns(id, "success"))
          => calls'[id].kept =
                Min(Cardinality(FileDescriptors(fs', calls[id].path)), MAX_VERSIONS)]_vars

\* C13 witness: a create returned maxVersions while more entries than that
\* were found
C13_Witness ==
    \E id \in SuccessfulCreates(FileF) :
        /\ calls[id].kept = MAX_VERSIONS
        /\ Cardinality(FileDescriptors(fs, FileF)) > MAX_VERSIONS

\* the descriptors of folder entries of `p` in the main store of `f`
FolderDescriptors(f, p) ==
    {q \in DOMAIN f : /\ IsPrefix(BACKUP_DIR_NORMALIZED, q)
                      /\ IsFile(f, q)
                      /\ f[q].meta # NoMeta
                      /\ f[q].meta.original_path = p
                      /\ isFolderMetadata(f, f[q].meta)}

\* C14: after a successful create-folder-backup of P at most maxVersions
\* folder entries of P remain in the main store, and the versions-kept value
\* returned is min(count, maxVersions) with count >= 1 counting the entry
\* just created
C14_FolderRetention ==
    [][\A id \in Ids :
          (calls[id].verb = "backup_folder_create" /\ Returns(id, "success"))
          => LET count == Cardinality(FolderDescriptors(fs', calls[id].path))
             IN  /\ count >= 1
                 /\ count <= MAX_VERSIONS
                 /\ calls'[id].kept = Min(count, MAX_VERSIONS)]_vars

\* C15: after N successful create-file-backup calls of P with
\* maxVersions = M < N, list-file-backups(P) returns exactly M entries and the
\* payload of every returned entry exists in the main store
C15_ListAfterRetention ==
    [][\A id \in Ids :
          (/\ calls[id].verb = "backup_list" /\ Returns(id, "success")
           /\ InFlight = {id}
           /\ Cardinality(SuccessfulStamps(calls[id].path)) > MAX_VERSIONS)
          => /\ Len(calls'[id].listed) = MAX_VERSIONS
             /\ \A k \in 1..Len(calls'[id].listed) :
                   IsFile(fs', calls'[id].listed[k].backup_path)]_vars

\* the backup payloads (files and folders) of the main store
MainPayloads(f) ==
    {q \in DOMAIN f : IsPrefix(BACKUP_DIR_NORMALIZED, q) /\ Basename(q).cls = "bak"}
\* the descriptors of the main store
MainDescriptors(f) ==
    {q \in DOMAIN f : /\ IsPrefix(BACKUP_DIR_NORMALIZED, q)
                      /\ IsFile(f, q) /\ f[q].meta # NoMeta}

\* C16: whenever no call is in progress, every backup payload of the main
\* store has its descriptor at <backup_path>.meta.json, and every descriptor
\* of the main store refers to a payload that exists
C16_SidecarInvariant ==
    InFlight = {} =>
        /\ \A q \in MainPayloads(fs) :
              /\ IsFile(fs, getBackupMetadataFilename(q))
              /\ fs[getBackupMetadataFilename(q)].meta # NoMeta
              /\ fs[getBackupMetadataFilename(q)].meta.backup_path = q
        /\ \A d \in MainDescriptors(fs) : Exists(fs, fs[d].meta.backup_path)

\* C17: every emergency backup written by a restore has its descriptor at
\* <backup_path>.meta.json, next to the emergency payload
C17_EmergencyDescriptorPath ==
    \A r \in Done :
        (calls[r].verb \in RestoreVerbs /\ calls[r].result = "success")
        => \A e \in calls[r].emMade :
              /\ IsFile(fs, getBackupMetadataFilename(e))
              /\ fs[getBackupMetadataFilename(e)].meta # NoMeta
              /\ fs[getBackupMetadataFilename(e)].meta.backup_path = e

\* C18: a successful restore-folder-backup(P, T) copies from an entry whose
\* descriptor has original_path = P and timestamp = T, never from an entry of
\* an ancestor or a descendant of P
C18_FolderRestoreExactEntry ==
    [][\A r \in Ids :
          (calls[r].verb = "backup_folder_restore" /\ Returns(r, "success"))
          => /\ calls[r].backup.original_path = calls[r].path
             /\ calls[r].backup.timestamp = calls[r].ts]_vars

\* the regular files and the directories strictly below the folder `p`
FilesBelow(f, p) == {q \in DOMAIN f : IsPrefix(p, q) /\ q # p /\ IsFile(f, q)}
DirsBelow(f, p) == {q \in DOMAIN f : IsPrefix(p, q) /\ q # p /\ IsDir(f, q)}
\* where the folder backup (p, timestamp) holds the copy of `q`, a path below p
CopyOf(p, timestamp, q) ==
    Join(getBackupDir(p), getBackupFolderName(p, timestamp))
       \o SubSeq(q, Len(p) + 1, Len(q))
Copied(f, g, p, timestamp, q) ==
    IsFile(g, CopyOf(p, timestamp, q)) /\ g[CopyOf(p, timestamp, q)].data = f[q].data

\* C19: a successful create-folder-backup with include glob I has copied every
\* regular file of the tree, at every depth, whose name matches I
C19_IncludeScoping ==
    [][\A id \in Ids :
          (/\ calls[id].verb = "backup_folder_create" /\ Returns(id, "success")
           /\ calls[id].include_pattern # NoGlob /\ calls[id].exclude_pattern = NoGlob)
          => \A q \in FilesBelow(fs, calls[id].path) :
                Minimatch(Basename(q), calls[id].include_pattern)
                => Copied(fs, fs', calls[id].path, calls[id].ts, q)]_vars

\* C20: a successful create-folder-backup with exclude glob E has omitted
\* every regular file whose name matches E, copied every regular file whose
\* name does not match E, and preserved every directory of the tree, including
\* the directories whose own names match E
C20_ExcludeScoping ==
    [][\A id \in Ids :
          (/\ calls[id].verb = "backup_folder_create" /\ Returns(id, "success")
           /\ calls[id].exclude_pattern # NoGlob /\ calls[id].include_pattern = NoGlob)
          => /\ \A q \in FilesBelow(fs, calls[id].path) :
                   IF Minimatch(Basename(q), calls[id].exclude_pattern)
                   THEN \/ ~Exists(fs', CopyOf(calls[id].path, calls[id].ts, q))
                        \/ Exists(fs, CopyOf(calls[id].path, calls[id].ts, q))
                   ELSE Copied(fs, fs', calls[id].path, calls[id].ts, q)
             /\ \A q \in DirsBelow(fs, calls[id].path) :
                   IsDir(fs', CopyOf(calls[id].path, calls[id].ts, q))]_vars

\* C21: a restore whose emergency snapshot step failed with an I/O error
\* returns the result, and leaves at the original path the content, of the
\* same restore called with make-emergency = false
C21_EmergencyFailureNonFatal ==
    [][\A r \in Ids :
          (/\ calls[r].verb \in RestoreVerbs
           /\ Returns(r, calls'[r].result)
           /\ calls'[r].emFailed)
          => /\ calls'[r].result = calls[r].plain.result
             /\ ContentAt(fs', calls[r].path) = calls[r].plain.content]_vars

\* C21 witness: a file restore whose emergency step failed has returned a
\* success result and has replaced the content of the original
C21_Witness ==
    \E r \in Done : /\ calls[r].verb = "backup_restore" /\ calls[r].emFailed
                     /\ calls[r].result = "success"
                     /\ calls[r].em = "true" /\ calls[r].emMade = {}
                     /\ calls[r].pre # NULL
                     /\ IsFile(fs, calls[r].path) /\ fs[calls[r].path].data # calls[r].pre

\* what the emergency store holds
EmergencyStore(f) == {q \in DOMAIN f : IsPrefix(EMERGENCY_BACKUP_DIR_NORMALIZED, q)}

\* C22: no step of a create, list, restore, list-all or cancel call deletes
\* an entry of the emergency store
C22_EmergencyNeverPruned ==
    [][\A q \in EmergencyStore(fs) : q \in DOMAIN fs' /\ fs'[q].kind = fs[q].kind]_vars

\* C22 witness: a retention pass has deleted a payload of the main store
\* while the emergency store holds a payload of the same original
C22_Witness ==
    /\ \E d \in MainDescriptors(fs) : ~Exists(fs, fs[d].meta.backup_path)
    /\ \E q \in EmergencyStore(fs) : IsFile(fs, q) /\ Basename(q).cls = "ebak"

\* the elements of a sequence
Range(s) == {s[k] : k \in 1..Len(s)}

\* C23: list-file-backups(P) returns exactly the file entries of the main
\* store whose descriptor has original_path = P, whether or not P exists
C23_ListByExactPath ==
    [][\A id \in Ids :
          (calls[id].verb = "backup_list" /\ Returns(id, calls'[id].result))
          => /\ calls'[id].result = "success"
             /\ Range(calls'[id].listed) =
                   {fs[d].meta : d \in FileDescriptors(fs, calls[id].path)}
             /\ Len(calls'[id].listed) =
                   Cardinality(FileDescriptors(fs, calls[id].path))]_vars

\* the descriptors of the folder entries of the main store
AllFolderDescriptors(f) == {d \in MainDescriptors(f) : isFolderMetadata(f, f[d].meta)}
\* one path is the other, or an ancestor of it, by whole components
Related(a, b) == IsPrefix(a, b) \/ IsPrefix(b, a)

\* C24: list-folder-backups(P) returns exactly the folder entries whose
\* original_path is P, a descendant of P or an ancestor of P, and none whose
\* original_path is unrelated to P or differs from P in letter case only
C24_FolderLookupRelation ==
    [][\A id \in Ids :
          (calls[id].verb = "backup_folder_list" /\ Returns(id, "success"))
          => Range(calls'[id].listed) =
                {fs[d].meta : d \in {x \in AllFolderDescriptors(fs) :
                                       Related(fs[x].meta.original_path, calls[id].path)}}]_vars

ListVerbs == {"backup_list", "backup_folder_list"}
Descending(s) == \A k \in 1..(Len(s) - 1) : s[k].timestamp >= s[k + 1].timestamp
StrictlyDescending(s) == \A k \in 1..(Len(s) - 1) : s[k].timestamp > s[k + 1].timestamp

\* C25 (amended): the entries returned by list-file-backups are in strictly
\* descending order of timestamp, and those returned by list-folder-backups
\* in descending order, entries of related folders with the same timestamp
\* being adjacent
C25_NewestFirst ==
    [][\A id \in Ids :
          (calls[id].verb \in ListVerbs /\ Returns(id, "success"))
          => /\ Descending(calls'[id].listed)
             /\ calls[id].verb = "backup_list" => StrictlyDescending(calls'[id].listed)]_vars

\* C25 witness: a list-file-backups call has returned two entries
C25_Witness ==
    \E id \in Done : /\ calls[id].verb = "backup_list"
                     /\ Len(calls[id].listed) >= 2
                     /\ StrictlyDescending(calls[id].listed)

\* C25 (as claimed): the entries returned by list-file-backups and
\* list-folder-backups are in strictly descending order of timestamp
C25_StrictlyNewestFirst ==
    [][\A id \in Ids :
          (calls[id].verb \in ListVerbs /\ Returns(id, "success"))
          => StrictlyDescending(calls'[id].listed)]_vars

AllListVerbs == {"backup_list", "backup_folder_list", "backup_list_all"}
\* the step is one of a list call
ListStep ==
    \E id \in DOMAIN calls' :
        /\ calls'[id].verb \in AllListVerbs
        /\ id \in Ids => calls'[id] # calls[id]
\* the list call `j` returns what each earlier list call with its arguments
\* returned, when no other call was made since that call was dispatched
SameAsBefore(j) ==
    \A i \in calls[j].prior :
        (/\ calls[i].verb = calls[j].verb /\ calls[i].path = calls[j].path
         /\ calls[i].em = calls[j].em
         /\ \A k \in Ids \ {i, j} : k \in calls[i].prior)
        => /\ calls'[j].result = calls[i].result
           /\ calls'[j].listed = calls[i].listed
           /\ calls'[j].listedEm = calls[i].listedEm

\* C26 (amended): two consecutive list calls with the same arguments return
\* the same entries in the same order, and a list call changes nothing in the
\* stores or the originals, except that list-all-backups with the emergency
\* store included makes the emergency root directory when it is missing
C26_IdempotentListing ==
    [][/\ \A j \in Ids : (calls[j].verb \in AllListVerbs /\ Returns(j, calls'[j].result))
                         => SameAsBefore(j)
       /\ ListStep => /\ \A q \in DOMAIN fs : q \in DOMAIN fs' /\ fs'[q] = fs[q]
                      /\ DOMAIN fs' \ DOMAIN fs \subseteq {EMERGENCY_BACKUP_DIR_NORMALIZED}]_vars

\* C26 witness: a second list-all call has returned the entries of the first,
\* which made the emergency root
C26_Witness ==
    \E i, j \in Done :
        /\ calls[i].verb = "backup_list_all" /\ calls[j].verb = "backup_list_all"
        /\ i \in calls[j].prior /\ calls[i].em = "absent" /\ calls[j].em = "absent"
        /\ \A k \in Ids \ {i, j} : k \in calls[i].prior
        /\ calls[i].listed # <<>> /\ calls[j].listed = calls[i].listed
        /\ calls[j].result = "success"
        /\ EmergencyStore(fs) = {EMERGENCY_BACKUP_DIR_NORMALIZED}

\* C26 (as claimed): ... and a list call creates, modifies or deletes nothing
\* in the main store, the emergency store or the original paths
C26_ListChangesNothing ==
    [][/\ \A j \in Ids : (calls[j].verb \in AllListVerbs /\ Returns(j, calls'[j].result))
                         => SameAsBefore(j)
       /\ ListStep => fs' = fs]_vars

\* a < b as strings (by code unit)
LexLess(a, b) ==
    \/ \E k \in 1..Min(Len(a), Len(b)) :
          a[k] < b[k] /\ \A j \in 1..(k - 1) : a[j] = b[j]
    \/ Len(a) < Len(b) /\ SubSeq(b, 1, Len(a)) = a
\* YYYYMMDD-HHMMSS-mmm
StampWidth == 19

\* C27: the timestamp strings generated at two instants t1 < t2 have the
\* same fixed width and compare lexically as t1 and t2 do
C27_TimestampOrder ==
    \A i, j \in Ids :
        (/\ calls[i].verb = "generateTimestamp" /\ calls[j].verb = "generateTimestamp"
         /\ calls[i].instant < calls[j].instant)
        => /\ Len(calls[i].stamp) = StampWidth /\ Len(calls[j].stamp) = StampWidth
           /\ LexLess(calls[i].stamp, calls[j].stamp)

\* the root a list-all walks in its next step
ScannedRoot(c) ==
    IF c.pc = "la_main" THEN BACKUP_DIR_NORMALIZED ELSE EMERGENCY_BACKUP_DIR_NORMALIZED

\* the walk of list-all call i reads a set cancelled flag in its next step:
\* the flag is set and the root has an entry to visit
ObservesCancel(i) ==
    /\ calls[i].verb = "backup_list_all" /\ calls[i].pc \in {"la_main", "la_em"}
    /\ checkOperationCancelled(operations, i)
    /\ Exists(fs, ScannedRoot(calls[i]))
    /\ Readdir(fs, ScannedRoot(calls[i])) # <<>>

\* C28: when the walk of a list-all call observes the cancelled flag, the
\* call ends at that step with an error result that carries no entry of
\* either store, and the status of its operation is error or cancelled
C28_CancelDiscards ==
    [][\A i \in Ids :
          (ObservesCancel(i) /\ calls'[i] # calls[i])
          => /\ calls'[i].pc = "done"
             /\ calls'[i].result = "error"
             /\ calls'[i].listed = <<>> /\ calls'[i].listedEm = <<>>
             /\ operations'[i].status \in {"error", "cancelled"}]_vars

\* a list-all that had gathered the main store's entries and was cancelled
\* while walking the emergency store
C28_Witness ==
    \E i \in Ids :
        /\ calls[i].verb = "backup_list_all" /\ calls[i].pc = "done"
        /\ calls[i].result = "error" /\ calls[i].discarded > 0
        /\ calls[i].listed = <<>> /\ calls[i].listedEm = <<>>
        /\ operations[i].cancelled /\ operations[i].status = "error"

\* the files of a store root that list-all reports: backup payloads and
\* descriptors, by name
Reportable(f, root) ==
    {q \in DOMAIN f : /\ IsPrefix(root, q) /\ IsFile(f, q)
                      /\ isBackupFile(Basename(q)) \/ isMetadataFile(Basename(q))}

\* the original path the descriptor of `q` records, null (<<>>) when the
\* descriptor is missing or is no JSON
DescribedOriginal(f, q) ==
    LET d == IF isMetadataFile(Basename(q)) THEN q ELSE getBackupMetadataFilename(q)
    IN  IF IsFile(f, d) /\ f[d].meta # NoMeta THEN f[d].meta.original_path ELSE <<>>

\* the entries of a list-all are the reportable files of the root, each with
\* the original path its descriptor records, or null
AllReported(entries, f, root) ==
    /\ {e.path : e \in Range(entries)} = Reportable(f, root)
    /\ \A e \in Range(entries) : e.original_path = DescribedOriginal(f, e.path)

\* the descriptors of the main store that are no JSON
Malformed(f) ==
    {d \in DOMAIN f : /\ IsPrefix(BACKUP_DIR_NORMALIZED, d) /\ IsFile(f, d)
                      /\ Basename(d).cls = "meta" /\ f[d].meta = NoMeta}

\* C29: with descriptors missing or malformed in the stores, a list call
\* does not fail: list-file-backups and list-folder-backups return every
\* readable entry of the path and no unreadable one, list-all-backups
\* returns every payload and descriptor file, with a null original path
\* where no descriptor can be read
C29_TolerantListing ==
    [][\A i \in Ids :
          (calls[i].verb \in AllListVerbs /\ calls[i].pc # "done" /\ calls'[i].pc = "done")
          => /\ calls'[i].result = "success"
             /\ calls[i].verb = "backup_list" =>
                   /\ {fs[d].meta : d \in FileDescriptors(fs, calls[i].path)}
                         \subseteq Range(calls'[i].listed)
                   /\ Range(calls'[i].listed) \subseteq {fs[d].meta : d \in MainDescriptors(fs)}
             /\ calls[i].verb = "backup_folder_list" =>
                   /\ {fs[d].meta : d \in FolderDescriptors(fs, calls[i].path)}
                         \subseteq Range(calls'[i].listed)
                   /\ Range(calls'[i].listed) \subseteq {fs[d].meta : d \in MainDescriptors(fs)}
             /\ calls[i].verb = "backup_list_all" =>
                   /\ AllReported(calls'[i].listed, fs', BACKUP_DIR_NORMALIZED)
                   /\ AllReported(calls'[i].listedEm, fs', EMERGENCY_BACKUP_DIR_NORMALIZED)]_vars

\* after two creates one descriptor is malformed; list-file-backups returned
\* the other entry alone, and list-all-backups reported a null original path
C29_Witness ==
    /\ Malformed(fs) # {}
    /\ 1 \in SuccessfulCreates(FileF) /\ 2 \in SuccessfulCreates(FileF)
    /\ 3 \in Ids /\ calls[3].pc = "done" /\ calls[3].result = "success"
    /\ \/ /\ calls[3].verb = "backup_list"
          /\ Len(calls[3].listed) = 1
          /\ calls[3].listed[1] \in {fs[d].meta : d \in MainDescriptors(fs)}
       \/ /\ calls[3].verb = "backup_list_all"
          /\ \E e \in Range(calls[3].listed) :
                e.path \in Malformed(fs) /\ e.original_path = <<>>
          /\ \E e \in Range(calls[3].listed) : e.original_path = FileF

\* call i returns in this step because an argument is missing
FailsValidation(i) ==
    /\ i \notin Ids /\ i \in DOMAIN calls'
    /\ calls'[i].pc = "done" /\ calls'[i].path = <<>> /\ calls'[i].verb # "backup_list_all"
    /\ ~(calls'[i].verb = "mcp_cancel" /\ calls'[i].target # 0)

\* call i, a create, returns in this step because its source does not exist
FailsNotFound(i) ==
    /\ i \in Ids /\ calls[i].verb \in CreateVerbs
    /\ calls[i].pc \in {"c_stat", "fc_stat"} /\ calls'[i] # calls[i]
    /\ IF calls[i].verb = "backup_create"
       THEN ~IsFile(fs, calls[i].path) ELSE ~IsDir(fs, calls[i].path)

\* C30: a call with a missing required argument, and a create whose source
\* does not exist, return an error result carrying the id of the operation
\* allocated for the call, and the file system (main store, emergency store,
\* originals) is as it was
C30_ValidationErrors ==
    [][\A i \in DOMAIN calls' :
          (FailsValidation(i) \/ FailsNotFound(i))
          => /\ calls'[i].pc = "done" /\ calls'[i].result = "error"
             /\ i \in DOMAIN operations' /\ operations'[i].type = calls'[i].verb
             /\ calls'[i].errorId = i
             /\ fs' = fs]_vars

\* a create of a deleted file and a call without its argument have both
\* returned their error, next to a create that succeeded
C30_Witness ==
    /\ \E i \in Ids : /\ calls[i].verb = "backup_create" /\ calls[i].path = FileF
                       /\ calls[i].pc = "done" /\ calls[i].result = "error"
                       /\ calls[i].errorId = i
    /\ \E i \in Ids : /\ calls[i].verb \in VerbsWithRequired /\ calls[i].path = <<>>
                       /\ calls[i].pc = "done" /\ calls[i].result = "error"
                       /\ calls[i].errorId = i
    /\ SuccessfulCreates(FileF) # {}

\* the keys of a folder descriptor (BackupFolderMetadata) beyond the common ones
FolderKeys == {"original_foldername", "include_pattern", "exclude_pattern"}

\* C31: the descriptor a successful create-folder-backup writes records the
\* original folder name and the include and exclude globs passed to the call
C31_FolderDescriptorContents ==
    [][\A id \in Ids :
          (calls[id].verb = "backup_folder_create" /\ Returns(id, "success"))
          => \E d \in FolderDescriptors(fs', calls[id].path) :
                LET m == fs'[d].meta
                IN  /\ m.timestamp = calls[id].ts
                    /\ FolderKeys \subseteq DOMAIN m
                    /\ m.original_foldername = Basename(calls[id].path).base
                    /\ m.include_pattern = calls[id].include_pattern
                    /\ m.exclude_pattern = calls[id].exclude_pattern]_vars

\* C32: two original paths whose normalized parent directories differ are
\* given different backup directories
C32_MapperInjective ==
    \A i, j \in Ids :
        (/\ calls[i].verb = "getBackupDir" /\ calls[j].verb = "getBackupDir"
         /\ calls[i].dir # calls[j].dir)
        => calls[i].backupDir # calls[j].backupDir

\* C33: a restore that returns the cancellation result leaves at (and below)
\* the original path exactly what was there when it was called
C33_CancelledRestore ==
    [][\A i \in Ids :
          (calls[i].verb \in RestoreVerbs /\ Returns(i, "cancelled"))
          => ContentAt(fs', calls[i].path) = calls[i].before]_vars

\* a restore was cancelled that, run to its end, would have changed what is
\* at the original path
C33_Witness ==
    \E i \in Ids :
        /\ calls[i].pc = "done" /\ calls[i].result = "cancelled"
        /\ operations[i].cancelled
        /\ ContentAt(fs, calls[i].path) = calls[i].before
        /\ calls[i].plain.result = "success"
        /\ calls[i].plain.content # calls[i].before

\* call i has passed the last checkpoint of its handler: a restore of a file
\* is in its emergency copy or its copy, or the call has returned
PastLastCheckpoint(i) ==
    calls[i].pc \in {"e_dir", "e_mkdir", "e_copy", "e_meta", "r_copy", "fr_copy", "done"}

\* the entry of a successful create is whole: payload and descriptor
EntryOf(f, c) ==
    LET backupPath == Join(getBackupDir(c.path), getBackupFilename(c.path, c.ts))
    IN  IsFile(f, backupPath) /\ IsFile(f, getBackupMetadataFilename(backupPath))

\* C34: a cancelled flag set once the call has passed its last checkpoint
\* changes nothing: a restore that succeeds when run alone goes on and
\* returns success with the backup's content at the original, never the
\* cancellation result, and a cancel naming a create that has returned leaves
\* its result and the stores as they are
C34_LateCancel ==
    [][/\ \A i \in Ids :
             (/\ calls[i].verb \in RestoreVerbs /\ calls[i].plain.result = "success"
              /\ PastLastCheckpoint(i) /\ operations[i].cancelled /\ calls'[i] # calls[i])
             => /\ calls'[i].result \in {"none", "success"}
                /\ calls'[i].result = "success"
                      => ContentAt(fs', calls[i].path) = calls[i].plain.content
       /\ \A k \in DOMAIN calls' \ Ids :
             (/\ calls'[k].verb = "mcp_cancel" /\ calls'[k].target \in Ids
              /\ PastLastCheckpoint(calls'[k].target))
             => /\ fs' = fs
                /\ calls'[calls'[k].target] = calls[calls'[k].target]
                /\ operations'[calls'[k].target].cancelled]_vars

\* a restore cancelled after its last checkpoint, while in progress, has
\* returned success
C34_Witness ==
    \E i, j, k \in Ids :
        /\ calls[i].verb = "backup_create" /\ calls[i].result = "success"
        /\ EntryOf(fs, calls[i])
        /\ calls[j].verb = "backup_restore" /\ calls[j].result = "success"
        /\ operations[j].cancelled
        /\ calls[k].verb = "mcp_cancel" /\ calls[k].target = j /\ j \notin calls[k].prior

\* the folder backup directories of a store root: directories whose name
\* ends with the timestamp suffix
FolderBackupDirs(f, root) ==
    {q \in DOMAIN f : IsPrefix(root, q) /\ IsDir(f, q) /\ isBackupFile(Basename(q))}

\* C35: a successful list-all-backups has an entry of type folder (or
\* directory) for every folder backup directory of the main store, and its
\* entries for regular backup files have type file
C35_ListAllFolders ==
    [][\A id \in Ids :
          (calls[id].verb = "backup_list_all" /\ Returns(id, "success"))
          => /\ \A q \in FolderBackupDirs(fs', BACKUP_DIR_NORMALIZED) :
                   \E e \in Range(calls'[id].listed) :
                       e.path = q /\ e.type \in {"folder", "directory"}
             /\ \A e \in Range(calls'[id].listed) :
                   IsFile(fs', e.path) => e.type = "file"]_vars

(***************************************************************************)
(* Folder restore as an overlay (lines 524-525, copyFolderRecursive).      *)
(***************************************************************************)
OverlayOps == 2

\* relative paths of the regular files below root
TreeFiles(f, root) ==
    {SubSeq(q, Len(root) + 1, Len(q)) : q \in {q \in DOMAIN f : IsPrefix(root, q) /\ IsFile(f, q)}}

NextOverlay ==
    \/ \E p \in {FileF, FileG}, c \in Contents : InFlight = {} /\ EditFile(p, c)
    \/ InFlight = {} /\ DeleteFile(FileF)
    \/ \E p \in {FolderD, FolderS} :
          InFlight = {} /\ NextId <= OverlayOps /\ DispatchFolderCreate(p, NoGlob, NoGlob)
    \/ \E id \in 1..OverlayOps, t \in 1..MaxTime : FolderCreateStat(id, t)
    \/ \E id \in 1..OverlayOps : FolderCreateMkdir(id)
    \/ \E id \in 1..OverlayOps : FolderCreateCopy(id)
    \/ \E p \in {FolderD, FolderS}, t \in 1..MaxTime :
          InFlight = {} /\ NextId <= OverlayOps /\ DispatchFolderRestoreTraced(p, t, "false")
    \/ \E id \in 1..OverlayOps : FolderRestoreStat(id)
    \/ \E id \in 1..OverlayOps : FolderRestoreCopy(id)

SpecOverlay == Init /\ [][NextOverlay]_vars

\* C36: the step that completes a successful backup_folder_restore(P, T)
\* leaves every regular file of the backup tree it copies from under P at
\* the same relative path with the backup's content, leaves every file under
\* P that has no counterpart in that tree unchanged, and removes nothing
\* under P.
C36_FolderOverlay ==
    [][\A id \in Ids :
          (calls[id].verb = "backup_folder_restore" /\ Returns(id, "success"))
          => LET P == calls[id].path
                 B == calls[id].backup.backup_path
             IN  /\ \A r \in TreeFiles(fs, B) :
                        /\ IsFile(fs', P \o r)
                        /\ fs'[P \o r].data = fs[B \o r].data
                 /\ \A r \in TreeFiles(fs, P) \ TreeFiles(fs, B) :
                        IsFile(fs', P \o r) /\ fs'[P \o r] = fs[P \o r]
                 /\ \A q \in DOMAIN fs : IsPrefix(P, q) => q \in DOMAIN fs']_vars

\* a finished restore that replaced one file's content by the backup's and
\* kept a file the backup tree does not hold
C36_Witness ==
    \E i \in Ids :
        /\ calls[i].verb = "backup_folder_restore"
        /\ calls[i].pc = "done" /\ calls[i].result = "success"
        /\ \E B \in FolderBackupDirs(fs, BACKUP_DIR_NORMALIZED) :
             LET P == calls[i].path
             IN
               /\ Basename(B).ts = calls[i].ts
               /\ B = Join(getBackupDir(P), getBackupFolderName(P, calls[i].ts))
               /\ \E r \in TreeFiles(fs, B) :
                      /\ P \o r \in DOMAIN calls[i].before
                      /\ calls[i].before[P \o r].data # fs[B \o r].data
                      /\ IsFile(fs, P \o r) /\ fs[P \o r].data = fs[B \o r].data
               /\ \E r \in TreeFiles(fs, P) \ TreeFiles(fs, B) :
                      /\ P \o r \in DOMAIN calls[i].before
                      /\ calls[i].before[P \o r] = fs[P \o r]

\* successful backup_create calls for filePath that have returned
CreatesDone(filePath) ==
    {i \in Ids : /\ calls[i].verb = "backup_create" /\ calls[i].path = filePath
                 /\ calls[i].pc = "done" /\ calls[i].result = "success"}

\* C37: k successful creates for a path, k <= maxVersions, leave k distinct
\* entries for it: no two of them share a backup path, and the store holds
\* one entry per create.
C37_DistinctEntries ==
    LET k == Cardinality(CreatesDone(FileF))
    IN  k <= MAX_VERSIONS
        => /\ \A i, j \in CreatesDone(FileF) : i # j => calls[i].ts # calls[j].ts
           /\ Len(findBackupsByFilePath(fs, FileF)) = k

(***************************************************************************)
(* Retention of one path next to the entries of another.                   *)
(***************************************************************************)
IsolationOps == 4

NextIsolation ==
    \/ \E p \in {FileF, FileG} : InFlight = {} /\ NextId <= IsolationOps /\ DispatchCreate(p)
    \/ \E id \in 1..IsolationOps, t \in 1..RetentionTime : CreateStat(id, t)
    \/ \E id \in 1..IsolationOps : CreateMkdir(id)
    \/ \E id \in 1..IsolationOps : CreateCopy(id)

SpecIsolation == Init /\ [][NextIsolation]_vars

\* descriptors of the main store naming filePath, and the payloads they name
EntryPaths(f, filePath) ==
    LET ds == {d \in ReadableDescriptors(f) :
                 /\ IsPrefix(BACKUP_DIR_NORMALIZED, d) /\ f[d].meta.original_path = filePath}
    IN  ds \cup {f[d].meta.backup_path : d \in ds}

\* C38: the step of a backup_create for P that runs the retention pass
\* removes only payloads whose descriptor names P, and leaves every
\* descriptor and payload of any other original path as it was.
C38_RetentionIsolation ==
    [][\A id \in Ids :
          (calls[id].verb = "backup_create" /\ calls[id].pc = "c_copy")
          => LET P == calls[id].path
             IN  /\ \A q \in DOMAIN fs \ DOMAIN fs' :
                        readBackupMetadata(fs, getBackupMetadataFilename(q)).original_path = P
                 /\ \A Q \in {FileF, FileG} \ {P} :
                        \A q \in EntryPaths(fs, Q) :
                            (q \in DOMAIN fs) => (q \in DOMAIN fs' /\ fs'[q] = fs[q])]_vars

\* a create for one path has pruned a payload of that path while the other
\* path's entry, written before, is complete
C38_Witness ==
    \E i, j \in Ids :
        /\ calls[i].verb = "backup_create" /\ calls[j].verb = "backup_create"
        /\ calls[i].path # calls[j].path /\ j < i
        /\ calls[i].pc = "done" /\ calls[i].result = "success"
        /\ calls[j].pc = "done" /\ calls[j].result = "success"
        /\ EntryOf(fs, calls[j])
        /\ \E d \in EntryPaths(fs, calls[i].path) \cap DOMAIN fs :
               fs[d].meta # NoMeta /\ ~Exists(fs, fs[d].meta.backup_path)

(***************************************************************************)
(* Calls dispatched one at a time, with cancel calls at any moment.        *)
(***************************************************************************)
SerialOps == 4

NextSerial ==
    \/ InFlight = {} /\ NextId <= SerialOps /\ DispatchCreate(FileF)
    \/ \E id \in 1..SerialOps, t \in 1..MaxTime : CreateStat(id, t)
    \/ \E id \in 1..SerialOps : CreateMkdir(id)
    \/ \E id \in 1..SerialOps : CreateCopy(id)
    \/ \E t \in 1..MaxTime :
          InFlight = {} /\ NextId <= SerialOps /\ DispatchRestore(FileF, t, "false")
    \/ \E id \in 1..SerialOps : RestoreFound(id)
    \/ \E id \in 1..SerialOps : RestoreMkdir(id)
    \/ \E id \in 1..SerialOps : RestoreCopy(id)
    \/ InFlight = {} /\ NextId <= SerialOps /\ DispatchListAll("false")
    \/ \E id \in 1..SerialOps : ListAllMain(id)
    \/ \E t \in 1..SerialOps : NextId <= SerialOps /\ Cancel(t)

SpecSerial == Init /\ [][NextSerial]_vars

\* a cancel call naming i was dispatched after i was allocated and before i
\* returned
InterleavedCancel(i) ==
    \E k \in Ids :
        /\ calls[k].verb = "mcp_cancel" /\ calls[k].target = i
        /\ i < k /\ i \notin calls[k].prior

\* every call had returned when the next one was dispatched
OneAtATime == \A k \in Ids : \A i \in Ids : i < k => i \in calls[k].prior

\* C39: a call in progress has its cancelled flag set, and a call returns
\* the cancellation result, only if a cancel call naming it was dispatched
\* while it was in progress; when calls run one at a time, no call in
\* progress has the flag set and none returns the cancellation result.
C39_SerialDispatch ==
    /\ \A i \in Ids :
          (\/ i \in InFlight /\ checkOperationCancelled(operations, i)
           \/ calls[i].result = "cancelled")
          => InterleavedCancel(i)
    /\ OneAtATime
       => \A i \in Ids :
             /\ calls[i].result # "cancelled"
             /\ i \in InFlight => ~checkOperationCancelled(operations, i)

\* a create returned success and a cancel call dispatched after it named it
\* and set its flag, the result standing; a cancel call dispatched while
\* another call was in progress made that call return the cancellation result
C39_Witness ==
    \E i, k, j \in Ids :
        /\ calls[i].verb = "backup_create" /\ calls[i].result = "success"
        /\ calls[k].verb = "mcp_cancel" /\ calls[k].target = i /\ i \in calls[k].prior
        /\ calls[k].status = "cancelled" /\ operations[i].cancelled
        /\ calls[j].result = "cancelled" /\ InterleavedCancel(j)

\* the step is a cancel call naming operation a
CancelNaming(a) ==
    \E k \in DOMAIN calls' \ Ids : calls'[k].verb = "mcp_cancel" /\ calls'[k].target = a

\* C40: a cancel call naming operation A sets no flag but A's and leaves
\* every other call's frame and the store as they are; a call that no cancel
\* names never returns the cancellation result; and the step in which a
\* cancelled call A returns leaves the entry of every other successful
\* create as it was.
C40_CancelIsolation ==
    [][\A a \in Ids :
          /\ CancelNaming(a)
             => /\ fs' = fs
                /\ \A b \in Ids \ {a} : operations'[b] = operations[b] /\ calls'[b] = calls[b]
          /\ Returns(a, "cancelled")
             => /\ \E k \in Ids : calls[k].verb = "mcp_cancel" /\ calls[k].target = a
                /\ \A b \in Ids \ {a} :
                      (/\ calls[b].verb = "backup_create" /\ calls[b].pc = "done"
                       /\ calls[b].result = "success" /\ EntryOf(fs, calls[b]))
                      => LET backupPath == Join(getBackupDir(calls[b].path),
                                                getBackupFilename(calls[b].path, calls[b].ts))
                         IN  EntryOf(fs', calls[b]) /\ fs'[backupPath] = fs[backupPath]]_vars

=============================================================================
